---- MODULE Spec2Model ----
(***************************************************************************)
(* A model of docusight's ingest and classify pipeline:                    *)
(*   routers/insight.py         analyze_folder, generate_folder_response   *)
(*   routers/classification.py  classify_folder, classify_batch            *)
(*   file_utils.py              staging, normalisation, tree building,     *)
(*                              Dropbox upload and download, lookups       *)
(*   models.py                  the Folder, Document, Classification rows  *)
(* Every request is a process whose steps are the awaited stages of its    *)
(* handler. Spec serves the requests one after the other, SpecOverlapping  *)
(* lets them interleave, SpecClassify runs classify requests over the rows *)
(* the tables can hold and SpecRacing adds a third request to them,        *)
(* SpecOwners serves the requests of two owners. SpecLabels runs           *)
(* classify_batch alone over the replies of an engine, SpecLookup runs     *)
(* get_folder_by_segments alone over the folders of two owners,            *)
(* SpecCallback serves the OAuth callbacks of routers/authentication.py,   *)
(* SpecWriteZip runs write_zip_in_chunks alone over the streams of an      *)
(* upload.                                                                 *)
(***************************************************************************)
EXTENDS Integers, Sequences, FiniteSets, TLC

\* ------------------------------------------------------------ bounds
MaxRequests == 3        \* requests served one after the other in one behaviour
MaxOverlapping == 2     \* requests served in a behaviour whose requests overlap
MaxInFlight == 2        \* requests in flight at the same time
MaxIngestsInFlight == 1 \* ingest pipelines in flight at the same time
MaxFiles == 2           \* files in one archive
MaxIngests == 2         \* requests that run the ingest pipeline
MaxFaults == 1          \* requests that meet a failure of their environment
CLASSIFICATION_BATCH_SIZE == 2   \* documents in one engine call (config.py sets 16)
ZIP_FILE_READ_CHUNK_SIZE == 2    \* bytes in one chunk of a file (config.py sets 1 MB)

Users == {"u1"}
Owners == {"u1", "u2"}
ArchiveNames == {"s"}
Exts == {"txt", "pdf", "docx", "png"}
ReqIds == 1..MaxRequests

\* file_to_plain_text: the extensions with a conversion branch
SupportedExts == {"txt", "docx", "pdf", "csv", "htm", "html", "rtf"}

\* ------------------------------------------------------------ helpers
Range(s) == {s[i] : i \in DOMAIN s}

Max(S) == IF S = {} THEN 0 ELSE CHOOSE x \in S : \A y \in S : y <= x

Injective(s) == \A i, j \in DOMAIN s : s[i] = s[j] => i = j

SeqsUpTo(S, n) == UNION {[1..k -> S] : k \in 0..n}

IsPrefix(p, s) == Len(p) <= Len(s) /\ SubSeq(s, 1, Len(p)) = p

\* Path.parent of a directory path
Parent(d) == SubSeq(d, 1, Len(d) - 1)

\* the key of a file: its directory, base name and extension
Key(f) == [dir |-> f.dir, base |-> f.base, ext |-> f.ext]

NoRow == 0          \* None for an id or a dropbox_path

\* ------------------------------------------------------------ archives
\* The directories an archive named n may hold (its top-level directory first).
ArchiveDirs(n) == {<<n>>, <<n, "t">>}

ArchiveFiles(n) ==
  [dir : {<<n>>}, base : {"a"}, ext : Exts]
    \cup [dir : {<<n, "t">>}, base : {"b"}, ext : {"pdf"}]

\* An archive: its file name without .zip, its directories, its files in the
\* order a directory walk lists them, and whether the zip is unreadable.
ArchivesNamed(n) ==
  {[name |-> n, dirs |-> D, files |-> fs, corrupt |-> c] :
     D \in SUBSET ArchiveDirs(n),
     fs \in SeqsUpTo(ArchiveFiles(n), MaxFiles), c \in BOOLEAN}

WellFormedArchive(a) ==
  /\ <<a.name>> \in a.dirs
  /\ \A d \in a.dirs : Len(d) > 1 => Parent(d) \in a.dirs
  /\ \A i \in DOMAIN a.files : a.files[i].dir \in a.dirs
  /\ Injective(a.files)
  /\ a.corrupt => a.files = <<>> /\ a.dirs = {<<a.name>>}

Archives == {a \in UNION {ArchivesNamed(n) : n \in ArchiveNames} : WellFormedArchive(a)}

NoArchive == [name |-> "", dirs |-> {}, files |-> <<>>, corrupt |-> FALSE]

\* ------------------------------------------------------------ state
VARIABLES
  folders,          \* committed rows of table folders
  documents,        \* committed rows of table documents
  classifications,  \* committed rows of table classifications
  dbLock,           \* the request whose transaction holds the write lock, or 0
  fsFiles,          \* files under settings.TEMP_DIR
  fsDirs,           \* directories under settings.TEMP_DIR
  blobs,            \* the Dropbox store: committed blobs
  users,            \* committed rows of table users
  sessions,         \* the signed-cookie session of each browser
  result,           \* the locals of a function that a specification runs alone
  req,              \* the requests: handler position and local variables
  interference      \* history: a request touched a file another one staged

vars == <<folders, documents, classifications, dbLock, fsFiles, fsDirs, blobs,
          users, sessions, result, req, interference>>

\* what the sign-in writes
login == <<users, sessions>>

\* the browsers that hold a session cookie; no account id is stored at first
Browsers == {"b1", "b2"}
NoSessions == [b \in Browsers |-> ""]

\* ------------------------------------------------------------ rows and sets
RECURSIVE SetToSeq(_)
\* a set in the order a listing or an unordered query yields it
SetToSeq(S) ==
  IF S = {} THEN <<>>
  ELSE LET x == CHOOSE y \in S : TRUE IN <<x>> \o SetToSeq(S \ {x})

RECURSIVE SortById(_)
\* rows in primary-key order
SortById(S) ==
  IF S = {} THEN <<>>
  ELSE LET x == CHOOSE y \in S : \A z \in S : y.id <= z.id
       IN <<x>> \o SortById(S \ {x})

RECURSIVE Concat(_)
Concat(ss) == IF ss = <<>> THEN <<>> ELSE Head(ss) \o Concat(Tail(ss))

\* result.scalars().first(): the id of the first row, or None
First(S) == IF S = {} THEN NoRow ELSE SortById(S)[1].id

Row(S, id) == CHOOSE x \in S : x.id = id

InFlight(r) == req[r].pc \notin {"new", "done", "failed"}

\* the rows a request's session sees: the committed ones and its own pending ones
ViewFolders(r) == folders \cup req[r].pendFolders
ViewCls(r) == classifications \cup req[r].pendCls

\* ------------------------------------------------------------ lookups
\* a query that leaves the owner out
FoldersOfAnyOwner(F, parent_id, user, segment) ==
  {f \in F : f.parent_id = parent_id /\ f.name = segment}

\* get_folder_by_segments, lines 497-502: the rows the query selects
FoldersNamed(F, parent_id, user, segment) ==
  {f \in F : f.parent_id = parent_id /\ f.user_id = user /\ f.name = segment}

RECURSIVE WalkSegments(_, _, _, _, _)
\* get_folder_by_segments, lines 496-508: the loop over the segments
WalkSegments(segments, parent_id, folder, F, user) ==
  IF segments = <<>> THEN folder
  ELSE LET found == First(FoldersNamed(F, parent_id, user, Head(segments)))
       IN IF found = NoRow THEN NoRow
          ELSE WalkSegments(Tail(segments), found, found, F, user)

\* file_utils.get_folder_by_segments: the Folder id, or NoRow for None
get_folder_by_segments(segments, F, user) ==
  WalkSegments(segments, NoRow, NoRow, F, user)

\* file_utils.get_folder_by_path
get_folder_by_path(path, F, user) == get_folder_by_segments(path, F, user)

\* file_utils.get_document_by_path: [status, doc]; status 400 and 404 are the
\* HTTPExceptions it raises, doc is NoRow for None
get_document_by_path(path, F, D, user) ==
  IF Len(path.dir) + 1 < 2 THEN [status |-> 400, doc |-> NoRow]
  ELSE LET folder == get_folder_by_segments(path.dir, F, user)
       IN IF folder = NoRow THEN [status |-> 404, doc |-> NoRow]
          ELSE [status |-> 200,
                doc |-> First({d \in D : /\ d.folder_id = folder
                                         /\ d.filename = [base |-> path.base,
                                                          ext |-> path.ext]})]

\* file_utils.get_subfolders_in_folder
get_subfolders_in_folder(folder, F) == SortById({f \in F : f.parent_id = folder})

\* a document that never counts as classified
NeverClassified(d, C) == FALSE

\* Document.classification != None: a Classification row references the document
HasClassification(d, C) == \E c \in C : c.document_id = d.id

RECURSIVE get_documents_in_folder(_, _, _, _, _, _)
\* file_utils.get_documents_in_folder: the Document ids, subfolders' first
get_documents_in_folder(folder, F, D, C, drill, classified) ==
  LET own == SortById({d \in D : /\ d.folder_id = folder
                                 /\ HasClassification(d, C) = classified})
      ownIds == [i \in DOMAIN own |-> own[i].id]
      subs == get_subfolders_in_folder(folder, F)
  IN IF drill
     THEN Concat([i \in DOMAIN subs |->
                    get_documents_in_folder(subs[i].id, F, D, C, TRUE, classified)])
          \o ownIds
     ELSE ownIds

RECURSIVE generate_folder_response(_, _, _, _)
\* insight.generate_folder_response, flattened: the folders of the tree and the
\* documents listed in it
generate_folder_response(folder, F, D, C) ==
  LET docs == get_documents_in_folder(folder, F, D, C, FALSE, FALSE)
      subs == get_subfolders_in_folder(folder, F)
      below == [i \in DOMAIN subs |-> generate_folder_response(subs[i].id, F, D, C)]
  IN [folders |-> {folder} \cup UNION {below[i].folders : i \in DOMAIN below},
      documents |-> Range(docs) \cup UNION {below[i].documents : i \in DOMAIN below}]

\* ------------------------------------------------------------ staging
\* file_utils.generate_tmp_dir: TEMP_DIR/<user.id>_<display name>, a function of
\* the user alone
generate_tmp_dir(user) == user

SameFile(f, tmp, k) == f.tmp = tmp /\ Key(f) = k

FileAt(files, tmp, k) == CHOOSE f \in files : SameFile(f, tmp, k)

Exists(files, tmp, k) == \E f \in files : SameFile(f, tmp, k)

\* open(path, "w") and write: the file at the path is replaced
WriteFile(files, tmp, k, content, by) ==
  {f \in files : ~SameFile(f, tmp, k)}
    \cup {[tmp |-> tmp, dir |-> k.dir, base |-> k.base, ext |-> k.ext,
           content |-> content, by |-> by]}

\* Path.unlink
Unlink(files, tmp, k) == {f \in files : ~SameFile(f, tmp, k)}

\* shutil.rmtree(dir): what is left of the files and of the directories
RmtreeFiles(files, tmp, dir) == {f \in files : ~(f.tmp = tmp /\ IsPrefix(dir, f.dir))}
RmtreeDirs(dirs, tmp, dir) == {d \in dirs : ~(d.tmp = tmp /\ IsPrefix(dir, d.dir))}

IsDir(dirs, tmp, dir) == [tmp |-> tmp, dir |-> dir] \in dirs

\* a request changed or removed a file that another in-flight request staged
Touches(r, before, after) ==
  \E f \in before : f.by # r /\ InFlight(f.by) /\ f \notin after

ZipKey(a) == [dir |-> <<>>, base |-> a.name, ext |-> "zip"]

\* tmp_zipped_folder_path.with_suffix("")
tmp_client_dir(a) == <<a.name>>

RawContent(k) == [src |-> k, form |-> "raw"]

\* file_utils.extract_zip: extractall into the zip's parent directory
ExtractFiles(files, tmp, a, by) ==
  {f \in files : ~(f.tmp = tmp /\ Key(f) \in Range(a.files))}
    \cup {[tmp |-> tmp, dir |-> k.dir, base |-> k.base, ext |-> k.ext,
           content |-> RawContent(k), by |-> by] : k \in Range(a.files)}

ExtractDirs(dirs, tmp, a) == dirs \cup {[tmp |-> tmp, dir |-> d] : d \in a.dirs}

\* tmp_client_dir.rglob("*.*"): the request's own files in the archive's order,
\* then whatever else lies below the directory
Rglob(files, tmp, a) ==
  LET own == SelectSeq(a.files, LAMBDA k : Exists(files, tmp, k))
      rest == {Key(f) : f \in {g \in files : /\ g.tmp = tmp
                                             /\ IsPrefix(tmp_client_dir(a), g.dir)
                                             /\ Key(g) \notin Range(a.files)}}
  IN own \o SetToSeq(rest)

\* ------------------------------------------------------------ normalisation
NoText == [src |-> [dir |-> <<>>, base |-> "", ext |-> ""], form |-> "none"]

\* file_utils.file_to_plain_text: the text, or NoText for None (unsupported
\* extension, or an exception of the conversion, among them a missing file);
\* bad holds the files whose conversion raises
file_to_plain_text(files, tmp, path, bad) ==
  IF path.ext \notin SupportedExts \/ path \in bad \/ ~Exists(files, tmp, path)
  THEN NoText
  ELSE [src |-> FileAt(files, tmp, path).content.src, form |-> "text"]

\* path.with_suffix(".txt")
WithSuffixTxt(path) == [path EXCEPT !.ext = "txt"]

\* plain_text_files[plain_text_path] = original_meta: a dict keeps a key's first
\* position
MapPut(map, k, meta) ==
  IF \E i \in DOMAIN map : map[i].txt = k
  THEN [i \in DOMAIN map |-> IF map[i].txt = k THEN [txt |-> k, meta |-> meta]
                                               ELSE map[i]]
  ELSE Append(map, [txt |-> k, meta |-> meta])

MapKeys(map) == [i \in DOMAIN map |-> map[i].txt]

MapGet(map, k) == (CHOOSE i \in DOMAIN map : map[i].txt = k)

RECURSIVE convert_until_failure(_, _, _, _, _, _)
\* a loop that the first file without a text ends
convert_until_failure(paths, tmp, files, map, bad, by) ==
  IF paths = <<>> THEN [files |-> files, map |-> map]
  ELSE LET path == Head(paths)
           text == file_to_plain_text(files, tmp, path, bad)
           plain_text_path == WithSuffixTxt(path)
       IN IF text = NoText
          THEN [files |-> files, map |-> map]
          ELSE convert_until_failure(
                 Tail(paths), tmp,
                 Unlink(WriteFile(files, tmp, plain_text_path, text, by), tmp, path),
                 MapPut(map, plain_text_path, path), bad, by)

RECURSIVE convert_files_to_plain_text(_, _, _, _, _, _)
\* file_utils.convert_files_to_plain_text: the staged files and the map it
\* returns, after the paths (each: convert, record the metadata under the .txt
\* path, write the .txt file, unlink the original)
convert_files_to_plain_text(paths, tmp, files, map, bad, by) ==
  IF paths = <<>> THEN [files |-> files, map |-> map]
  ELSE LET path == Head(paths)
           text == file_to_plain_text(files, tmp, path, bad)
           plain_text_path == WithSuffixTxt(path)
       IN IF text = NoText
          THEN convert_files_to_plain_text(Tail(paths), tmp, files, map, bad, by)
          ELSE convert_files_to_plain_text(
                 Tail(paths), tmp,
                 Unlink(WriteFile(files, tmp, plain_text_path, text, by), tmp, path),
                 MapPut(map, plain_text_path, path), bad, by)

\* ------------------------------------------------------------ tree building
RECURSIVE VisitDirs(_, _, _, _)
\* the directories add_folder_to_database visits, each before its subdirectories
VisitDirs(dirs, tmp, current_dir, drill) ==
  LET subs == SetToSeq({d.dir : d \in {e \in dirs : /\ e.tmp = tmp
                                                   /\ Len(e.dir) = Len(current_dir) + 1
                                                   /\ Parent(e.dir) = current_dir}})
  IN <<current_dir>>
       \o (IF drill
           THEN Concat([i \in DOMAIN subs |-> VisitDirs(dirs, tmp, subs[i], drill)])
           ELSE <<>>)

\* os.listdir(current_dir), the entries that are files
FilesIn(files, tmp, dir) == {Key(f) : f \in {g \in files : g.tmp = tmp /\ g.dir = dir}}

IndexOf(s, x) == CHOOSE i \in DOMAIN s : s[i] = x

\* a folder that names itself as its parent
OwnId(visited, i, nextFolder) == nextFolder + i - 1

\* add_folder_to_database, line 299: the id of parent_folder, which was flushed
\* before the recursive call for this directory, or None at the top
ParentId(visited, i, nextFolder) ==
  IF i = 1 THEN NoRow ELSE nextFolder + IndexOf(visited, Parent(visited[i])) - 1

\* file_utils.add_folder_to_database: [error, folders, documents, root].
\*   error "listdir": the directory is gone; "KeyError": a file of a visited
\*   directory has no entry in original_file_map; "IntegrityError": a Folder path
\*   is already taken (models.Folder.path is unique)
add_folder_to_database(current_dir, tmp, files, dirs, user_id, drill, map, F, nextFolder, nextDoc) ==
  LET visited == VisitDirs(dirs, tmp, current_dir, drill)
      newFolders ==
        {[id |-> nextFolder + i - 1, path |-> visited[i], name |-> visited[i][Len(visited[i])],
          parent_id |-> ParentId(visited, i, nextFolder),
          user_id |-> user_id] : i \in DOMAIN visited}
      listed == Concat([i \in DOMAIN visited |-> SetToSeq(FilesIn(files, tmp, visited[i]))])
      newDocs ==
        {[id |-> nextDoc + j - 1,
          folder_id |-> nextFolder + IndexOf(visited, listed[j].dir) - 1,
          user_id |-> user_id,
          filename |-> [base |-> map[MapGet(map, listed[j])].meta.base,
                        ext |-> map[MapGet(map, listed[j])].meta.ext],
          path |-> map[MapGet(map, listed[j])].meta,
          dropbox_path |-> NoRow] : j \in DOMAIN listed}
  IN IF ~IsDir(dirs, tmp, current_dir)
     THEN [error |-> "listdir", folders |-> {}, documents |-> {}, root |-> NoRow]
     ELSE IF \E j \in DOMAIN listed : listed[j] \notin Range(MapKeys(map))
     THEN [error |-> "KeyError", folders |-> {}, documents |-> {}, root |-> NoRow]
     ELSE IF \E i \in DOMAIN visited : \E f \in F : f.path = visited[i]
     THEN [error |-> "IntegrityError", folders |-> {}, documents |-> {}, root |-> NoRow]
     ELSE [error |-> "", folders |-> newFolders, documents |-> newDocs,
           root |-> nextFolder]

\* ------------------------------------------------------------ upload
\* the number of bytes of a staged text
Size(content) ==
  (IF content.src.base = "a" THEN 1 ELSE 2) + (IF content.src.ext = "docx" THEN 2 ELSE 0)

Call(op, n, session, offset, data, close, entries) ==
  [op |-> op, n |-> n, session |-> session, offset |-> offset, data |-> data,
   close |-> close, entries |-> entries]

\* what the Dropbox API answers during one upload: the session ids of
\* batch-start, which append or close call raises (0: none; 2i-1: the append of
\* file i; 2i: its close), whether batch-finish raises, the entries it marks failed
NoFault(N) ==
  [session_ids |-> [i \in 1..N |-> i], failCall |-> 0, finishRaises |-> FALSE,
   failed |-> {}]

UploadEnvs(N) ==
  LET none == NoFault(N)
  IN {none}
       \cup {[none EXCEPT !.session_ids = [i \in 1..k |-> i]] : k \in {N + 1} \cup ({N - 1} \ {-1})}
       \cup {[none EXCEPT !.failCall = c] : c \in 1..(2 * N)}
       \cup {[none EXCEPT !.finishRaises = TRUE]}
       \cup {[none EXCEPT !.failed = S] : S \in (SUBSET (1..N)) \ {{}}}

NoUpload ==
  [calls |-> <<>>, entries |-> <<>>, dropbox_paths |-> <<>>, raised |-> FALSE,
   committed |-> {}]

\* a cursor that does not move with the bytes sent
Stay(offset, content) == offset

\* cursor.offset += len(content), line 388
Advance(offset, content) == offset + Size(content)

\* settings.UPLOAD_DIR (config.py)
UPLOAD_DIR == "/uploads"

\* an identifier that is the same for every file of the upload
RepeatedId(fresh, i) == fresh + 1

\* line 372, str(uuid.uuid4()): an identifier no earlier blob and no other file
\* of this upload carries
file_id(fresh, i) == fresh + i

\* lines 373-375: "." and what follows the last dot of the file's name
file_ext(file_path) == "." \o file_path.ext

RECURSIVE UploadLoop(_, _, _, _, _, _, _, _)
\* the loop of upload_files_to_dropbox over zip(file_paths, session_ids), from
\* file i on: the calls made, the finish entries and the mapping so far
UploadLoop(i, file_paths, session_ids, tmp, files, env, fresh, acc) ==
  IF i > Len(file_paths) \/ i > Len(session_ids) THEN acc
  ELSE LET file_path == file_paths[i]
           session_id == session_ids[i]
           dropbox_path == file_id(fresh, i)
       IN IF ~Exists(files, tmp, file_path)
          THEN [acc EXCEPT !.raised = TRUE]
          ELSE LET content == FileAt(files, tmp, file_path).content
                   offset == Advance(0, content)
                   append == Call("append", 0, session_id, 0, content, FALSE, <<>>)
                   close == Call("append", 0, session_id, offset, NoText, TRUE, <<>>)
                   entry == [session |-> session_id, offset |-> offset,
                             path |-> dropbox_path, content |-> content,
                             dir |-> UPLOAD_DIR, ext |-> file_ext(file_path)]
               IN IF env.failCall = 2 * i - 1
                  THEN [acc EXCEPT !.calls = Append(@, append), !.raised = TRUE]
                  ELSE IF env.failCall = 2 * i
                  THEN [acc EXCEPT !.calls = @ \o <<append, close>>, !.raised = TRUE]
                  ELSE UploadLoop(i + 1, file_paths, session_ids, tmp, files, env, fresh,
                         [acc EXCEPT !.calls = @ \o <<append, close>>,
                                     !.entries = Append(@, entry),
                                     !.dropbox_paths =
                                        Append(@, [txt |-> file_path,
                                                   dropbox_path |-> dropbox_path])])

\* a check of batch-start's answer that accepts any number of session ids
AnySessionIds(session_ids, file_paths) == TRUE

\* the check of batch-start's answer, lines 359-364
SessionIdsOk(session_ids, file_paths) == Len(session_ids) = Len(file_paths)

\* a check of batch-finish's entries that finds no failure
NoFailures(env, entries) == {}

\* the check of batch-finish's entries, lines 418-427
Failures(env, entries) == env.failed \cap DOMAIN entries

\* file_utils.upload_files_to_dropbox: the API calls it makes, whether it raises,
\* the mapping it returns and the blobs Dropbox committed
upload_files_to_dropbox(file_paths, tmp, files, env, fresh, user, by) ==
  LET start == Call("start_batch", Len(file_paths), 0, 0, NoText, FALSE, <<>>)
      begun == [NoUpload EXCEPT !.calls = <<start>>]
      looped == UploadLoop(1, file_paths, env.session_ids, tmp, files, env, fresh, begun)
      finish == Call("finish_batch", 0, 0, 0, NoText, FALSE,
                     [i \in DOMAIN looped.entries |->
                        [session |-> looped.entries[i].session,
                         offset |-> looped.entries[i].offset,
                         path |-> looped.entries[i].path]])
      failures == Failures(env, looped.entries)
      \* what Dropbox commits: the entries it does not mark failed
      committed ==
        {[user |-> user, path |-> looped.entries[i].path,
          content |-> looped.entries[i].content,
          dir |-> looped.entries[i].dir, ext |-> looped.entries[i].ext,
          clean |-> env.failed \cap DOMAIN looped.entries = {}]
           : i \in DOMAIN looped.entries \ env.failed}
  IN IF ~SessionIdsOk(env.session_ids, file_paths)
     THEN [begun EXCEPT !.raised = TRUE]
     ELSE IF looped.raised THEN [looped EXCEPT !.dropbox_paths = <<>>]
     ELSE IF env.finishRaises
     THEN [looped EXCEPT !.calls = Append(@, finish), !.raised = TRUE,
                         !.dropbox_paths = <<>>]
     ELSE IF failures # {}
     THEN [looped EXCEPT !.calls = Append(@, finish), !.raised = TRUE,
                         !.dropbox_paths = <<>>, !.committed = committed]
     ELSE [looped EXCEPT !.calls = Append(@, finish), !.committed = committed]

\* ------------------------------------------------------------ download
\* Path(dropbox_path).name below tmp_dir
DownloadKey(dropbox_path) == [dir |-> <<>>, base |-> ToString(dropbox_path), ext |-> "txt"]

HasBlob(store, user, path) == \E b \in store : b.user = user /\ b.path = path

BlobAt(store, user, path) == CHOOSE b \in store : b.user = user /\ b.path = path

RECURSIVE download_past_failure(_, _, _, _, _, _, _, _)
\* a download that goes on with the next blob when a fetch fails
download_past_failure(k, dropbox_paths, tmp, files, store, user, failAt, by) ==
  IF k > Len(dropbox_paths)
  THEN [files |-> files, raised |-> failAt # 0, download_paths |-> <<>>]
  ELSE IF k = failAt \/ ~HasBlob(store, user, dropbox_paths[k])
  THEN download_past_failure(k + 1, dropbox_paths, tmp, files, store, user, failAt, by)
  ELSE download_past_failure(
         k + 1, dropbox_paths, tmp,
         WriteFile(files, tmp, DownloadKey(dropbox_paths[k]),
                   BlobAt(store, user, dropbox_paths[k]).content, by),
         store, user, failAt, by)

RECURSIVE download_files_from_dropbox(_, _, _, _, _, _, _, _)
\* file_utils.download_files_from_dropbox from blob k on; failAt is the fetch
\* that raises (0: none); a blob that is not in the store raises too
download_files_from_dropbox(k, dropbox_paths, tmp, files, store, user, failAt, by) ==
  IF k > Len(dropbox_paths)
  THEN [files |-> files, raised |-> FALSE,
        download_paths |-> [i \in DOMAIN dropbox_paths |-> DownloadKey(dropbox_paths[i])]]
  ELSE IF k = failAt \/ ~HasBlob(store, user, dropbox_paths[k])
  THEN [files |-> files, raised |-> TRUE, download_paths |-> <<>>]
  ELSE download_files_from_dropbox(
         k + 1, dropbox_paths, tmp,
         WriteFile(files, tmp, DownloadKey(dropbox_paths[k]),
                   BlobAt(store, user, dropbox_paths[k]).content, by),
         store, user, failAt, by)

\* ------------------------------------------------------------ classification
\* str.lower() of one character
LowerChar(c) ==
  CASE c = "A" -> "a" [] c = "B" -> "b" [] c = "E" -> "e" [] c = "G" -> "g"
    [] c = "I" -> "i" [] c = "L" -> "l" [] c = "N" -> "n" [] c = "O" -> "o"
    [] c = "P" -> "p" [] c = "R" -> "r" [] c = "S" -> "s" [] c = "T" -> "t"
    [] c = "U" -> "u" [] c = "V" -> "v" [] c = "Y" -> "y"
    [] OTHER -> c

RECURSIVE lower(_)
\* str.lower(), line 190
lower(s) ==
  IF s = "" THEN "" ELSE LowerChar(SubSeq(s, 1, 1)) \o lower(SubSeq(s, 2, Len(s)))

\* str.endswith(suffix), line 193
endswith(s, suffix) ==
  Len(s) >= Len(suffix) /\ SubSeq(s, Len(s) - Len(suffix) + 1, Len(s)) = suffix

RECURSIVE split(_, _)
\* str.split(sep) with a separator of one character, line 194
split(s, sep) ==
  IF \A i \in 1..Len(s) : SubSeq(s, i, i) # sep THEN <<s>>
  ELSE LET i == CHOOSE k \in 1..Len(s) :
                  /\ SubSeq(s, k, k) = sep
                  /\ \A j \in 1..(k - 1) : SubSeq(s, j, j) # sep
       IN <<SubSeq(s, 1, i - 1)>> \o split(SubSeq(s, i + 1, Len(s)), sep)

Digits == <<"0", "1", "2", "3", "4", "5", "6", "7", "8", "9">>

IsDigit(c) == \E d \in DOMAIN Digits : Digits[d] = c

DigitValue(c) == (CHOOSE d \in DOMAIN Digits : Digits[d] = c) - 1

RECURSIVE IntValue(_, _)
IntValue(s, acc) ==
  IF s = "" THEN acc
  ELSE IntValue(SubSeq(s, 2, Len(s)), 10 * acc + DigitValue(SubSeq(s, 1, 1)))

\* int(s), line 194: the number a string of decimal digits writes; any other
\* string raises ValueError
int(s) ==
  IF s # "" /\ \A i \in 1..Len(s) : IsDigit(SubSeq(s, i, i))
  THEN [raised |-> FALSE, value |-> IntValue(s, 0)]
  ELSE [raised |-> TRUE, value |-> 0]

\* classify_batch, lines 193-200: the label after the star branch
StarsLabel(raw, label) ==
  IF endswith(label, " stars")
  THEN LET stars == int(split(label, " ")[1])
       IN IF stars.raised THEN [raised |-> TRUE, label |-> raw]
          ELSE IF stars.value <= 2 THEN [raised |-> FALSE, label |-> "Negative"]
          ELSE IF stars.value = 3 THEN [raised |-> FALSE, label |-> "Neutral"]
          ELSE [raised |-> FALSE, label |-> "Positive"]
  ELSE [raised |-> FALSE, label |-> raw]

\* classify_batch, lines 203-208: the label after the word branch
WordsLabel(current, label) ==
  IF label \in {"very  negative", "negative"} THEN "Negative"
  ELSE IF label \in {"neutral"} THEN "Neutral"
  ELSE IF label \in {"positive", "very  positive"} THEN "Positive"
  ELSE current

\* classify_batch, lines 189-208: one pass of the loop, res["label"] afterwards
NormalizeLabel(raw) ==
  LET label == lower(raw)
      starred == StarsLabel(raw, label)
  IN IF starred.raised THEN starred
     ELSE [raised |-> FALSE, label |-> WordsLabel(starred.label, label)]

\* the pipeline stored in app.state.sentiment_classifier: the raw label it
\* gives a text (here a function of the kind of file the text came from)
sentiment_classifier(text) ==
  CASE text.src.ext = "txt" -> "5 stars"
    [] text.src.ext = "pdf" -> "1 star"
    [] OTHER -> "3 stars"

\* classify_batch: one result per text, in the order of the texts; raised when
\* normalising a label raises
classify_batch(texts) ==
  LET normalized == [i \in DOMAIN texts |->
                       NormalizeLabel(sentiment_classifier(texts[i]))]
  IN [raised |-> \E i \in DOMAIN normalized : normalized[i].raised,
      results |-> [i \in DOMAIN texts |->
                     [label |-> normalized[i].label, text |-> texts[i]]]]

Min(a, b) == IF a <= b THEN a ELSE b

\* a pairing that gives every result to the first document
ZipFirst(batch_docs, batch_results) ==
  [j \in 1..Min(Len(batch_docs), Len(batch_results)) |->
     [doc |-> batch_docs[1], res |-> batch_results[j]]]

\* zip(batch_docs, batch_results): pairs up to the shorter of the two
Zip(batch_docs, batch_results) ==
  [j \in 1..Min(Len(batch_docs), Len(batch_results)) |->
     [doc |-> batch_docs[j], res |-> batch_results[j]]]

\* the documents a batch's results are mapped back to, line 117
BatchDocs(unclassified_documents, i, batch_size) ==
  SubSeq(unclassified_documents, i + 1, Min(i + batch_size, Len(unclassified_documents)))

\* a slice that runs to the end of the list
RestOfPaths(local_paths, i, batch_size) == SubSeq(local_paths, i + 1, Len(local_paths))

\* line 104: batch_paths = local_paths[i : i + batch_size]
BatchPaths(local_paths, i, batch_size) ==
  SubSeq(local_paths, i + 1, Min(i + batch_size, Len(local_paths)))

RECURSIVE ClassifyLoop(_, _, _, _, _, _, _, _, _)
\* classify_folder, lines 102-129, from offset i on: the Classification objects
\* added to the session; failBatch is the engine call that raises (0: none)
ClassifyLoop(i, local_paths, unclassified_documents, tmp, files, user, failBatch, batchNo, acc) ==
  IF i >= Len(local_paths) THEN acc
  ELSE LET batch_size == CLASSIFICATION_BATCH_SIZE
           batch_paths == BatchPaths(local_paths, i, batch_size)
           readable == \A j \in DOMAIN batch_paths : Exists(files, tmp, batch_paths[j])
           batch_texts == [j \in DOMAIN batch_paths |->
                             FileAt(files, tmp, batch_paths[j]).content]
           batch == classify_batch(batch_texts)
           batch_results == batch.results
           pairs == Zip(BatchDocs(unclassified_documents, i, batch_size), batch_results)
           added == [j \in DOMAIN pairs |->
                       [id |-> NoRow, document_id |-> pairs[j].doc, user_id |-> user,
                        label |-> pairs[j].res.label, text |-> pairs[j].res.text]]
       IN IF ~readable \/ batchNo = failBatch \/ batch.raised
          THEN [acc EXCEPT !.raised = TRUE, !.engineCalls = @ + (IF readable THEN 1 ELSE 0),
                           !.calls = IF readable THEN Append(@, batch_texts) ELSE @]
          ELSE ClassifyLoop(i + batch_size, local_paths, unclassified_documents, tmp, files,
                            user, failBatch, batchNo + 1,
                            [acc EXCEPT !.classifications = @ \o added,
                                        !.engineCalls = @ + 1,
                                        !.calls = Append(@, batch_texts)])

\* no engine reply is being normalised
NoResult == [pc |-> "idle", i |-> 0, raw |-> <<>>, labels |-> <<>>]

\* ------------------------------------------------------------ requests
NoResponse == [folders |-> {}, documents |-> {}, classifications |-> <<>>]

NoCreated == [folders |-> 0, documents |-> 0, classifications |-> 0]

NoEnv == [session_ids |-> <<>>, failCall |-> 0, finishRaises |-> FALSE, failed |-> {}]

\* a request that has not arrived yet
NewReq ==
  [kind |-> "none", pc |-> "new", user |-> "", archive |-> NoArchive, drill |-> FALSE,
   folder_path |-> <<>>, pendFolders |-> {}, pendDocs |-> {}, pendCls |-> {},
   file_map |-> <<>>, root |-> NoRow, upload |-> NoUpload, env |-> NoEnv,
   unclassified |-> <<>>, classified |-> <<>>, local_paths |-> <<>>, newCls |-> <<>>,
   calls |-> <<>>,
   status |-> 0, detail |-> "", response |-> NoResponse,
   \* history of the request, kept for the properties
   shortcut |-> FALSE, staged |-> FALSE, uploaded |-> FALSE, created |-> NoCreated,
   found |-> 0, after |-> {}, overlapped |-> FALSE, stage |-> "", fault |-> FALSE,
   bad |-> {}]

\* a request that has answered: its session is closed (pending rows are rolled
\* back) and its local variables are gone
Finished(q, pc, status, response) ==
  [NewReq EXCEPT !.kind = q.kind, !.pc = pc, !.user = q.user,
                 !.folder_path = q.folder_path, !.status = status,
                 !.detail = q.detail,
                 !.response = response, !.shortcut = q.shortcut, !.staged = q.staged,
                 !.uploaded = q.uploaded, !.created = q.created, !.found = q.found,
                 !.after = q.after, !.overlapped = q.overlapped, !.fault = q.fault]

\* the environment may still fail a step of request r: an I/O error, a parser,
\* the Dropbox API or the engine raising
MayFail(r) ==
  req[r].fault \/ Cardinality({p \in ReqIds : req[p].fault}) < MaxFaults

\* how many requests a behaviour serves, how many of them at a time, and who
\* sends them
Sequential == [requests |-> MaxRequests, inflight |-> 1, users |-> Users]
Overlapping == [requests |-> MaxOverlapping, inflight |-> MaxInFlight, users |-> Users]

Arrives(r, limit) ==
  /\ req[r].pc = "new"
  /\ r <= limit.requests
  /\ \A p \in ReqIds : p < r => req[p].pc # "new"
  /\ Cardinality({p \in ReqIds : InFlight(p)}) < limit.inflight

Answered == {p \in ReqIds : req[p].pc \in {"done", "failed"}}

\* the next primary key of a table: above every committed and every pending row
NextId(committed, pending) ==
  Max({x.id : x \in committed \cup UNION {pending[p] : p \in ReqIds}}) + 1

\* the session's rows over the committed ones (a pending row hides the
\* committed row of the same id)
Merge(committed, pending) ==
  {x \in committed : \A y \in pending : y.id # x.id} \cup pending

\* ------------------------------------------------------------ ingest
\* the requests that ran the ingest pipeline
Pipelines == Cardinality({p \in ReqIds : req[p].kind = "ingest" /\ ~req[p].shortcut})

\* insight.analyze_folder, lines 122-135: the request arrives; an existing
\* top-level folder short-circuits it
analyze_folder(r, limit) ==
  /\ Arrives(r, limit)
  /\ Cardinality({p \in ReqIds : InFlight(p) /\ req[p].kind = "ingest"})
       < MaxIngestsInFlight
  /\ \E user \in limit.users, a \in Archives, drill \in BOOLEAN :
       LET existing_folder == get_folder_by_path(<<a.name>>, folders, user)
           tree == generate_folder_response(existing_folder, folders, documents,
                                            classifications)
           q == [NewReq EXCEPT !.kind = "ingest", !.user = user, !.archive = a,
                               !.drill = drill, !.folder_path = <<a.name>>,
                               !.after = Answered]
       IN IF existing_folder # NoRow
          THEN req' = [req EXCEPT ![r] =
                 Finished([q EXCEPT !.shortcut = TRUE], "done", 200,
                          [NoResponse EXCEPT !.folders = tree.folders,
                                             !.documents = tree.documents])]
          ELSE /\ Pipelines < MaxIngests
               /\ req' = [req EXCEPT ![r] = [q EXCEPT !.pc = "write_zip"]]
  /\ UNCHANGED <<login, result, folders, documents, classifications, dbLock, fsFiles, fsDirs, blobs,
                 interference>>

\* add_zipped_folder_to_database, lines 63-72: os.makedirs(tmp_dir) and
\* write_zip_in_chunks; a failing write leaves what was written
write_zip(r) ==
  /\ req[r].pc = "write_zip"
  /\ LET tmp == generate_tmp_dir(req[r].user)
         written == WriteFile(fsFiles, tmp, ZipKey(req[r].archive),
                              RawContent(ZipKey(req[r].archive)), r)
     IN /\ fsDirs' = fsDirs \cup {[tmp |-> tmp, dir |-> <<>>]}
        /\ fsFiles' = written
        /\ interference' = (interference \/ Touches(r, fsFiles, written))
        /\ \E ok \in BOOLEAN :
             /\ ~ok => MayFail(r)
             /\ req' = [req EXCEPT ![r].pc = IF ok THEN "extract" ELSE "except",
                                   ![r].staged = TRUE, ![r].stage = "write_zip",
                                   ![r].fault = @ \/ ~ok]
  /\ UNCHANGED <<login, result, folders, documents, classifications, dbLock, blobs>>

\* line 73: extract_zip; a corrupt or missing zip file raises
extract_zip(r) ==
  /\ req[r].pc = "extract"
  /\ LET tmp == generate_tmp_dir(req[r].user)
         a == req[r].archive
     IN IF a.corrupt \/ ~Exists(fsFiles, tmp, ZipKey(a))
        THEN /\ req' = [req EXCEPT ![r].pc = "except", ![r].stage = "extract"]
             /\ UNCHANGED <<fsFiles, fsDirs, interference>>
        ELSE /\ fsFiles' = ExtractFiles(fsFiles, tmp, a, r)
             /\ fsDirs' = ExtractDirs(fsDirs, tmp, a) \cup {[tmp |-> tmp, dir |-> <<>>]}
             /\ interference' =
                  (interference \/ Touches(r, fsFiles, ExtractFiles(fsFiles, tmp, a, r)))
             /\ req' = [req EXCEPT ![r].pc = "delete_zip", ![r].stage = "extract"]
  /\ UNCHANGED <<login, result, folders, documents, classifications, dbLock, blobs>>

\* a step that goes on to the normalisation and leaves the zip file
keep_zipfile(r) ==
  /\ req[r].pc = "delete_zip"
  /\ req' = [req EXCEPT ![r].pc = "convert", ![r].stage = "delete_zip"]
  /\ UNCHANGED <<login, result, folders, documents, classifications, dbLock, fsFiles,
                 fsDirs, blobs, interference>>

\* line 74: delete_zipfile
delete_zipfile(r) ==
  /\ req[r].pc = "delete_zip"
  /\ LET tmp == generate_tmp_dir(req[r].user)
         left == Unlink(fsFiles, tmp, ZipKey(req[r].archive))
     IN /\ fsFiles' = left
        /\ interference' = (interference \/ Touches(r, fsFiles, left))
  /\ req' = [req EXCEPT ![r].pc = "convert", ![r].stage = "delete_zip"]
  /\ UNCHANGED <<login, result, folders, documents, classifications, dbLock, fsDirs, blobs>>

\* lines 76-80: every listed file is normalised; the conversion of any file with
\* a parser may raise
convert(r) ==
  /\ req[r].pc = "convert"
  /\ LET tmp == generate_tmp_dir(req[r].user)
         paths == Rglob(fsFiles, tmp, req[r].archive)
     IN \E bad \in SUBSET {k \in Range(paths) : k.ext \in SupportedExts \ {"txt"}} :
          LET res == convert_files_to_plain_text(paths, tmp, fsFiles, <<>>, bad, r)
          IN /\ bad # {} => MayFail(r)
             /\ fsFiles' = res.files
             /\ interference' = (interference \/ Touches(r, fsFiles, res.files))
             /\ req' = [req EXCEPT ![r].pc = "add_folder", ![r].file_map = res.map,
                                   ![r].stage = "convert", ![r].fault = @ \/ bad # {},
                                   ![r].bad = bad]
  /\ UNCHANGED <<login, result, folders, documents, classifications, dbLock, fsDirs, blobs>>

\* lines 82-90: add_folder_to_database; the flush takes the database's write
\* lock, and fails when another transaction keeps it
add_folder(r) ==
  /\ req[r].pc = "add_folder"
  /\ LET q == req[r]
         tmp == generate_tmp_dir(q.user)
         res == add_folder_to_database(
                  tmp_client_dir(q.archive), tmp, fsFiles, fsDirs, q.user, q.drill,
                  q.file_map, folders,
                  NextId(folders, [p \in ReqIds |-> req[p].pendFolders]),
                  NextId(documents, [p \in ReqIds |-> req[p].pendDocs]))
     IN IF dbLock \notin {0, r}
        THEN /\ req' = [req EXCEPT ![r].pc = "except", ![r].stage = "add_folder"]
             /\ UNCHANGED dbLock
        ELSE /\ dbLock' = r
             /\ req' = [req EXCEPT
                  ![r].pc = IF res.error = "" THEN "upload" ELSE "except",
                  ![r].stage = "add_folder",
                  ![r].pendFolders = res.folders, ![r].pendDocs = res.documents,
                  ![r].root = res.root,
                  ![r].created = [q.created EXCEPT
                                    !.folders = Cardinality(res.folders),
                                    !.documents = Cardinality(res.documents)]]
  /\ UNCHANGED <<login, result, folders, documents, classifications, fsFiles, fsDirs, blobs,
                 interference>>

\* lines 92-96: upload_files_to_dropbox over the keys of the map
upload(r) ==
  /\ req[r].pc = "upload"
  /\ LET q == req[r]
         file_paths == MapKeys(q.file_map)
     IN \E env \in UploadEnvs(Len(file_paths)) :
          LET res == upload_files_to_dropbox(
                       file_paths, generate_tmp_dir(q.user), fsFiles, env,
                       Max({b.path : b \in blobs}), q.user, r)
          IN /\ env # NoFault(Len(file_paths)) => MayFail(r)
             /\ blobs' = blobs \cup res.committed
             /\ req' = [req EXCEPT ![r].pc = IF res.raised THEN "except" ELSE "attach",
                                   ![r].stage = "upload", ![r].uploaded = TRUE,
                                   ![r].upload = res, ![r].env = env,
                                   ![r].fault = @ \/ env # NoFault(Len(file_paths))]
  /\ UNCHANGED <<login, result, folders, documents, classifications, dbLock, fsFiles, fsDirs,
                 interference>>

RECURSIVE AttachLoop(_, _, _, _, _, _)
\* lines 97-103 from entry i on: the session's documents, and whether
\* get_document_by_path raised
AttachLoop(i, dropbox_paths, map, F, D, user) ==
  IF i > Len(dropbox_paths) THEN [docs |-> D, raised |-> FALSE]
  ELSE LET original_meta == map[MapGet(map, dropbox_paths[i].txt)].meta
           got == get_document_by_path(original_meta, F, D, user)
       IN IF got.status # 200 THEN [docs |-> D, raised |-> TRUE]
          ELSE IF got.doc = NoRow
          THEN AttachLoop(i + 1, dropbox_paths, map, F, D, user)
          ELSE AttachLoop(i + 1, dropbox_paths, map, F,
                 {IF d.id = got.doc
                  THEN [d EXCEPT !.dropbox_path = dropbox_paths[i].dropbox_path]
                  ELSE d : d \in D},
                 user)

\* the rows of D that differ from the committed ones: the session's dirty rows
Dirty(D, committed) == D \ committed

attach(r) ==
  /\ req[r].pc = "attach"
  /\ LET q == req[r]
         res == AttachLoop(1, q.upload.dropbox_paths, q.file_map, ViewFolders(r),
                           Merge(documents, q.pendDocs), q.user)
     IN req' = [req EXCEPT ![r].pc = IF res.raised THEN "except" ELSE "rmtree",
                           ![r].stage = "attach",
                           ![r].pendDocs = Dirty(res.docs, documents)]
  /\ UNCHANGED <<login, result, folders, documents, classifications, dbLock, fsFiles, fsDirs, blobs,
                 interference>>

\* line 106: shutil.rmtree(tmp_client_dir)
rmtree_client_dir(r) ==
  /\ req[r].pc = "rmtree"
  /\ LET tmp == generate_tmp_dir(req[r].user)
         dir == tmp_client_dir(req[r].archive)
     IN IF IsDir(fsDirs, tmp, dir)
        THEN /\ fsFiles' = RmtreeFiles(fsFiles, tmp, dir)
             /\ fsDirs' = RmtreeDirs(fsDirs, tmp, dir)
             /\ interference' =
                  (interference \/ Touches(r, fsFiles, RmtreeFiles(fsFiles, tmp, dir)))
             /\ req' = [req EXCEPT ![r].pc = "respond", ![r].stage = "rmtree"]
        ELSE /\ req' = [req EXCEPT ![r].pc = "except", ![r].stage = "rmtree"]
             /\ UNCHANGED <<fsFiles, fsDirs, interference>>
  /\ UNCHANGED <<login, result, folders, documents, classifications, dbLock, blobs>>

\* analyze_folder, lines 144-152: the response is generated, then the
\* transaction is committed
respond(r) ==
  /\ req[r].pc = "respond"
  /\ LET q == req[r]
         tree == generate_folder_response(q.root, ViewFolders(r),
                                          Merge(documents, q.pendDocs), ViewCls(r))
     IN /\ folders' = folders \cup q.pendFolders
        /\ documents' = Merge(documents, q.pendDocs)
        /\ dbLock' = IF dbLock = r THEN 0 ELSE dbLock
        /\ req' = [req EXCEPT ![r] =
             Finished([q EXCEPT !.stage = "commit"], "done", 200,
                      [NoResponse EXCEPT !.folders = tree.folders,
                                         !.documents = tree.documents])]
  /\ UNCHANGED <<login, result, classifications, fsFiles, fsDirs, blobs, interference>>

\* a handler that answers with the text of the exception it caught
ExceptionText(e) == e

\* the answer of the framework to an exception no handler caught
InternalServerError == "Internal Server Error"

\* add_zipped_folder_to_database, lines 108-113: the detail the caller gets for
\* exception e; when tmp_client_dir is missing, shutil.rmtree raises inside the
\* handler and the framework answers
add_zipped_folder_detail(e, removable) ==
  IF removable THEN "Failed to process and add zipped folder" ELSE InternalServerError

\* classify_folder, lines 164-168: the detail the caller gets for exception e
classify_folder_detail(e) == "Sentiment classification failed"

\* a handler that commits the rows of the session before it answers 500
commit_and_fail(r) ==
  /\ req[r].pc = "except"
  /\ folders' = folders \cup req[r].pendFolders
  /\ documents' = Merge(documents, req[r].pendDocs)
  /\ req' = [req EXCEPT ![r] = Finished(req[r], "failed", 500, NoResponse)]
  /\ dbLock' = IF dbLock = r THEN 0 ELSE dbLock
  /\ UNCHANGED <<login, result, classifications, fsFiles, fsDirs, blobs, interference>>

\* add_zipped_folder_to_database, lines 108-113: the handler of every exception
\* of the pipeline removes tmp_client_dir (and raises itself when there is none);
\* the session closes without a commit
except(r) ==
  /\ req[r].pc = "except"
  /\ LET tmp == generate_tmp_dir(req[r].user)
         dir == tmp_client_dir(req[r].archive)
         gone == IF IsDir(fsDirs, tmp, dir) THEN RmtreeFiles(fsFiles, tmp, dir)
                                            ELSE fsFiles
     IN /\ fsFiles' = gone
        /\ fsDirs' = IF IsDir(fsDirs, tmp, dir) THEN RmtreeDirs(fsDirs, tmp, dir)
                                                ELSE fsDirs
        /\ interference' = (interference \/ Touches(r, fsFiles, gone))
        /\ req' = [req EXCEPT ![r] =
             Finished([req[r] EXCEPT !.created = NoCreated,
                                     !.detail = add_zipped_folder_detail(
                                                  req[r].stage, IsDir(fsDirs, tmp, dir))],
                      "failed", 500, NoResponse)]
  /\ dbLock' = IF dbLock = r THEN 0 ELSE dbLock
  /\ UNCHANGED <<login, result, folders, documents, classifications, blobs>>

\* ------------------------------------------------------------ classify
FolderPaths == UNION {ArchiveDirs(n) : n \in ArchiveNames}

\* classification.classify_folder, lines 66-86: the request arrives; the folder
\* and its documents are read. The 404 and the 400 are raised inside the try
\* block, whose handler catches every Exception
classify_folder(r, limit) ==
  /\ Arrives(r, limit)
  /\ \E user \in limit.users, folder_path \in FolderPaths :
       LET folder == get_folder_by_path(folder_path, folders, user)
           unclassified_documents ==
             get_documents_in_folder(folder, folders, documents, classifications,
                                     TRUE, FALSE)
           classified_documents ==
             get_documents_in_folder(folder, folders, documents, classifications,
                                     TRUE, TRUE)
           others == {p \in ReqIds : InFlight(p) /\ req[p].kind = "classify"}
           q == [NewReq EXCEPT !.kind = "classify", !.user = user,
                               !.folder_path = folder_path, !.after = Answered,
                               !.overlapped = (others # {}), !.stage = "lookup"]
       IN req' = [p \in ReqIds |->
            IF p = r
            THEN IF folder = NoRow
                 THEN [q EXCEPT !.pc = "c_except", !.status = 404]
                 ELSE IF unclassified_documents = <<>> /\ classified_documents = <<>>
                 THEN [q EXCEPT !.pc = "c_except", !.status = 400]
                 ELSE [q EXCEPT !.pc = "c_download", !.root = folder,
                                !.unclassified = unclassified_documents,
                                !.classified = classified_documents,
                                !.found = Len(unclassified_documents)]
            ELSE IF p \in others THEN [req[p] EXCEPT !.overlapped = TRUE]
            ELSE req[p]]
  /\ UNCHANGED <<login, result, folders, documents, classifications, dbLock, fsFiles, fsDirs, blobs,
                 interference>>

\* line 90-92: the paths of the unclassified documents that have one
DropboxPaths(unclassified_documents, D) ==
  LET paths == [i \in DOMAIN unclassified_documents |->
                  Row(D, unclassified_documents[i]).dropbox_path]
  IN SelectSeq(paths, LAMBDA p : p # NoRow)

\* lines 88-96: os.makedirs(tmp_dir) and download_files_from_dropbox
download(r) ==
  /\ req[r].pc = "c_download"
  /\ LET q == req[r]
         tmp == generate_tmp_dir(q.user)
         dropbox_paths == DropboxPaths(q.unclassified, documents)
     IN \E failAt \in 0..Len(dropbox_paths) :
          LET res == download_files_from_dropbox(1, dropbox_paths, tmp, fsFiles, blobs,
                                                 q.user, failAt, r)
          IN /\ failAt # 0 => MayFail(r)
             /\ fsFiles' = res.files
             /\ fsDirs' = fsDirs \cup {[tmp |-> tmp, dir |-> <<>>]}
             /\ interference' = (interference \/ Touches(r, fsFiles, res.files))
             /\ req' = [req EXCEPT ![r].pc = IF res.raised THEN "c_except" ELSE "c_classify",
                                   ![r].stage = "download",
                                   ![r].local_paths = res.download_paths,
                                   ![r].fault = @ \/ failAt # 0]
  /\ UNCHANGED <<login, result, folders, documents, classifications, dbLock, blobs>>

NoClassified ==
  [classifications |-> <<>>, raised |-> FALSE, engineCalls |-> 0, calls |-> <<>>]

\* lines 98-129: the batches are read, scored and mapped back to the documents
classify(r) ==
  /\ req[r].pc = "c_classify"
  /\ LET q == req[r]
         batches == (Len(q.local_paths) + CLASSIFICATION_BATCH_SIZE - 1)
                      \div CLASSIFICATION_BATCH_SIZE
     IN \E failBatch \in 0..batches :
          LET res == ClassifyLoop(0, q.local_paths, q.unclassified,
                                  generate_tmp_dir(q.user), fsFiles, q.user, failBatch,
                                  1, NoClassified)
          IN /\ failBatch # 0 => MayFail(r)
             /\ req' = [req EXCEPT ![r].pc = IF res.raised THEN "c_except" ELSE "c_rmtree",
                                   ![r].stage = "classify",
                                   ![r].newCls = res.classifications,
                                   ![r].calls = res.calls,
                                   ![r].fault = @ \/ failBatch # 0]
  /\ UNCHANGED <<login, result, folders, documents, classifications, dbLock, fsFiles, fsDirs, blobs,
                 interference>>

\* line 132: shutil.rmtree(tmp_dir)
rmtree_tmp_dir(r) ==
  /\ req[r].pc = "c_rmtree"
  /\ LET tmp == generate_tmp_dir(req[r].user)
     IN IF IsDir(fsDirs, tmp, <<>>)
        THEN /\ fsFiles' = RmtreeFiles(fsFiles, tmp, <<>>)
             /\ fsDirs' = RmtreeDirs(fsDirs, tmp, <<>>)
             /\ interference' =
                  (interference \/ Touches(r, fsFiles, RmtreeFiles(fsFiles, tmp, <<>>)))
             /\ req' = [req EXCEPT ![r].pc = "c_commit", ![r].stage = "rmtree"]
        ELSE /\ req' = [req EXCEPT ![r].pc = "c_except", ![r].stage = "rmtree"]
             /\ UNCHANGED <<fsFiles, fsDirs, interference>>
  /\ UNCHANGED <<login, result, folders, documents, classifications, dbLock, blobs>>

\* a commit that replaces the rows of the table by the rows of the session
CommitReplacing(C, created) == Range(created)

\* a commit that a row of the same document already in the table rejects
CommitUnclassified(C, created) ==
  C \cup {c \in Range(created) : ~\E x \in C : x.document_id = c.document_id}

\* line 135, db.commit(): the rows added to the session are inserted; table
\* classifications has no constraint on document_id (models.py:70-81)
Commit(C, created) == C \cup Range(created)

\* lines 134-162: commit (it waits for the write lock), refresh, add the
\* classifications of the documents that were classified before, respond
commit_classifications(r) ==
  /\ req[r].pc = "c_commit"
  /\ dbLock = 0
  /\ LET q == req[r]
         first == NextId(classifications, [p \in ReqIds |-> req[p].pendCls])
         created == [j \in DOMAIN q.newCls |-> [q.newCls[j] EXCEPT !.id = first + j - 1]]
         committed == Commit(classifications, created)
         existing == SortById({c \in committed : c.document_id \in Range(q.classified)})
     IN /\ classifications' = committed
        /\ req' = [req EXCEPT ![r] =
             Finished([q EXCEPT !.stage = "commit",
                                !.created = [NoCreated EXCEPT
                                               !.classifications = Len(created)]],
                      "done", 200,
                      [NoResponse EXCEPT !.classifications = created \o existing])]
  /\ UNCHANGED <<login, result, folders, documents, dbLock, fsFiles, fsDirs, blobs, interference>>

\* a handler that commits what the session holds before it answers 500
commit_and_except(r) ==
  /\ req[r].pc = "c_except"
  /\ classifications' = classifications \cup Range(req[r].newCls)
  /\ req' = [req EXCEPT ![r] = Finished(req[r], "failed", 500, NoResponse)]
  /\ UNCHANGED <<login, result, folders, documents, dbLock, fsFiles, fsDirs, blobs,
                 interference>>

\* lines 164-168: the handler of every exception removes tmp_dir when it exists
\* and answers 500
classify_except(r) ==
  /\ req[r].pc = "c_except"
  /\ LET tmp == generate_tmp_dir(req[r].user)
         gone == RmtreeFiles(fsFiles, tmp, <<>>)
     IN /\ fsFiles' = gone
        /\ fsDirs' = RmtreeDirs(fsDirs, tmp, <<>>)
        /\ interference' = (interference \/ Touches(r, fsFiles, gone))
  /\ req' = [req EXCEPT ![r] =
       Finished([req[r] EXCEPT !.detail = classify_folder_detail(req[r].stage)],
                "failed", 500, NoResponse)]
  /\ UNCHANGED <<login, result, folders, documents, classifications, dbLock, blobs>>

\* ------------------------------------------------------------ specification
Init ==
  /\ folders = {}
  /\ documents = {}
  /\ classifications = {}
  /\ users = {}
  /\ sessions = NoSessions
  /\ dbLock = 0
  /\ fsFiles = {}
  /\ fsDirs = {}
  /\ blobs = {}
  /\ req = [r \in ReqIds |-> NewReq]
  /\ interference = FALSE
  /\ result = NoResult

\* one step of request r
Serve(r, limit) ==
  \/ analyze_folder(r, limit)
  \/ write_zip(r)
  \/ extract_zip(r)
  \/ delete_zipfile(r)
  \/ convert(r)
  \/ add_folder(r)
  \/ upload(r)
  \/ attach(r)
  \/ rmtree_client_dir(r)
  \/ respond(r)
  \/ except(r)
  \/ classify_folder(r, limit)
  \/ download(r)
  \/ classify(r)
  \/ rmtree_tmp_dir(r)
  \/ commit_classifications(r)
  \/ classify_except(r)

\* the requests of a behaviour are served one after the other
Next == \E r \in ReqIds : Serve(r, Sequential)

Spec == Init /\ [][Next]_vars

\* the requests of a behaviour overlap
NextOverlapping == \E r \in ReqIds : Serve(r, Overlapping)

SpecOverlapping == Init /\ [][NextOverlapping]_vars

\* two owners send their requests one after the other
MaxOwnerRequests == 2   \* requests of a behaviour with two owners

TwoOwners == [requests |-> MaxOwnerRequests, inflight |-> 1, users |-> Owners]

NextOwners == \E r \in ReqIds : Serve(r, TwoOwners)

SpecOwners == Init /\ [][NextOwners]_vars

\* ------------------------------------------------------------ stored folders
\* classify_folder over the rows the tables can hold (models.py): a folder tree
\* of one owner whose documents each have a dropbox_path or None
MaxStored == 3          \* documents stored below the folder

StoredOwner == CHOOSE u \in Users : TRUE

StoredDirs == <<<<"s">>, <<"s", "t">>>>

StoredFolders ==
  {[id |-> i, path |-> StoredDirs[i], name |-> StoredDirs[i][Len(StoredDirs[i])],
    parent_id |-> IF i = 1 THEN NoRow ELSE 1, user_id |-> StoredOwner]
     : i \in DOMAIN StoredDirs}

\* the original file of stored document i in directory dir
StoredPath(i, dir) ==
  [dir |-> dir, base |-> IF i % 2 = 1 THEN "a" ELSE "b",
   ext |-> IF i <= 2 THEN "pdf" ELSE "docx"]

StoredDocuments(n, place, ref) ==
  {[id |-> i, folder_id |-> place[i], user_id |-> StoredOwner,
    filename |-> [base |-> StoredPath(i, StoredDirs[place[i]]).base,
                  ext |-> StoredPath(i, StoredDirs[place[i]]).ext],
    path |-> StoredPath(i, StoredDirs[place[i]]),
    dropbox_path |-> IF ref[i] THEN i ELSE NoRow] : i \in 1..n}

StoredBlobs(n, place, ref) ==
  {[user |-> StoredOwner, path |-> i,
    content |-> [src |-> StoredPath(i, StoredDirs[place[i]]), form |-> "text"],
    dir |-> UPLOAD_DIR, ext |-> ".txt",
    clean |-> TRUE] : i \in {j \in 1..n : ref[j]}}

InitStored ==
  /\ \E n \in 0..MaxStored :
       \E place \in [1..n -> DOMAIN StoredDirs], ref \in [1..n -> BOOLEAN] :
         /\ folders = StoredFolders
         /\ documents = StoredDocuments(n, place, ref)
         /\ blobs = StoredBlobs(n, place, ref)
  /\ classifications = {}
  /\ users = {}
  /\ sessions = NoSessions
  /\ dbLock = 0
  /\ fsFiles = {}
  /\ fsDirs = {}
  /\ req = [r \in ReqIds |-> NewReq]
  /\ interference = FALSE
  /\ result = NoResult

\* one step of a classify request
ServeClassify(r, limit) ==
  \/ classify_folder(r, limit)
  \/ download(r)
  \/ classify(r)
  \/ rmtree_tmp_dir(r)
  \/ commit_classifications(r)
  \/ classify_except(r)

NextClassify == \E r \in ReqIds : ServeClassify(r, Overlapping)

SpecClassify == InitStored /\ [][NextClassify]_vars

\* the classify requests of a behaviour overlap, and a later one follows them
Racing == [requests |-> MaxRequests, inflight |-> MaxInFlight, users |-> Users]

NextRacing == \E r \in ReqIds : ServeClassify(r, Racing)

SpecRacing == InitStored /\ [][NextRacing]_vars

\* ------------------------------------------------------------ engine replies
\* classify_batch over the replies an engine can give: the labels of the
\* configured star model and of the word models the normalisation names
MaxBatch == 2           \* results in one reply of the engine

RawLabels ==
  {"1 star", "2 stars", "3 stars", "4 stars", "5 stars",
   "Very Negative", "very negative", "NEGATIVE", "negative", "very  negative",
   "Neutral", "Positive", "Very Positive", "very positive", "very  positive",
   "LABEL_0", "no stars"}

\* line 185: the engine has replied, one raw label per text
InitLabels ==
  /\ folders = {}
  /\ documents = {}
  /\ classifications = {}
  /\ users = {}
  /\ sessions = NoSessions
  /\ dbLock = 0
  /\ fsFiles = {}
  /\ fsDirs = {}
  /\ blobs = {}
  /\ req = [r \in ReqIds |-> NewReq]
  /\ interference = FALSE
  /\ \E raw \in SeqsUpTo(RawLabels, MaxBatch) :
       result = [pc |-> "loop", i |-> 0, raw |-> raw, labels |-> raw]

\* lines 189-208: one pass of the loop rewrites res["label"] in place
normalize_label ==
  /\ result.pc = "loop"
  /\ result.i < Len(result.raw)
  /\ LET res == NormalizeLabel(result.raw[result.i + 1])
     IN result' = IF res.raised
                  THEN [result EXCEPT !.pc = "raised"]
                  ELSE [result EXCEPT !.i = @ + 1, !.labels[result.i + 1] = res.label]
  /\ UNCHANGED <<login, folders, documents, classifications, dbLock, fsFiles, fsDirs, blobs,
                 req, interference>>

\* line 210: return result
return_result ==
  /\ result.pc = "loop"
  /\ result.i = Len(result.raw)
  /\ result' = [result EXCEPT !.pc = "returned"]
  /\ UNCHANGED <<login, folders, documents, classifications, dbLock, fsFiles, fsDirs, blobs,
                 req, interference>>

NextLabels == normalize_label \/ return_result

SpecLabels == InitLabels /\ [][NextLabels]_vars

\* ------------------------------------------------------------ folder lookup
\* get_folder_by_segments over the folders table of two owners
MaxFolders == 3         \* rows of the folders table
MaxSegments == 3        \* segments of the path looked up

SegmentNames == {"s", "S", "t"}

RECURSIVE PathOf(_, _)
\* add_folder_to_database, lines 296-300: Folder.path is the path from the
\* top-level folder down to the folder
PathOf(rows, i) ==
  IF rows[i].parent_id = NoRow THEN <<rows[i].name>>
  ELSE Append(PathOf(rows, rows[i].parent_id), rows[i].name)

\* the tables ingests can leave: a folder is created after its parent, for the
\* owner of its parent, and no two folders have the same path (models.py:32)
FolderTables ==
  LET Shapes == UNION {[1..n -> [name : SegmentNames, user_id : Owners,
                                 parent_id : 0..(MaxFolders - 1)]] : n \in 0..MaxFolders}
      Valid == {rows \in Shapes :
                  /\ \A i \in DOMAIN rows :
                       /\ rows[i].parent_id < i
                       /\ rows[i].parent_id # NoRow =>
                            rows[rows[i].parent_id].user_id = rows[i].user_id
                  /\ \A i, j \in DOMAIN rows : i # j => PathOf(rows, i) # PathOf(rows, j)}
  IN {{[id |-> i, path |-> PathOf(rows, i), name |-> rows[i].name,
        parent_id |-> rows[i].parent_id, user_id |-> rows[i].user_id]
         : i \in DOMAIN rows} : rows \in Valid}

\* a caller is about to look a path up
InitLookup ==
  /\ folders \in FolderTables
  /\ documents = {}
  /\ classifications = {}
  /\ users = {}
  /\ sessions = NoSessions
  /\ dbLock = 0
  /\ fsFiles = {}
  /\ fsDirs = {}
  /\ blobs = {}
  /\ req = [r \in ReqIds |-> NewReq]
  /\ interference = FALSE
  /\ \E user \in Owners, segments \in SeqsUpTo(SegmentNames, MaxSegments) :
       result = [pc |-> "call", user |-> user, segments |-> segments, folder |-> NoRow]

\* file_utils.get_folder_by_segments, lines 481-509
lookup ==
  /\ result.pc = "call"
  /\ result' = [result EXCEPT
                  !.pc = "returned",
                  !.folder = get_folder_by_segments(result.segments, folders, result.user)]
  /\ UNCHANGED <<login, folders, documents, classifications, dbLock, fsFiles, fsDirs, blobs,
                 req, interference>>

NextLookup == lookup

SpecLookup == InitLookup /\ [][NextLookup]_vars

\* ------------------------------------------------------------ sign-in
\* routers/authentication.dropbox_callback, one callback after the other
MaxCallbacks == 3       \* callbacks served in one behaviour

Accounts == {"dbid:1", "dbid:2"}
AccessTokens == {"at1", "at2"}
RefreshTokens == {"rt1"}
DisplayNames == {"Ann", "Bob"}
Emails == {"ann@x.org"}
Expirations == {NoRow, 1}      \* oauth_result.expires_at: None or a time

NoOAuthResult == [access_token |-> "", refresh_token |-> "", expires_at |-> NoRow]
NoUserInfo == [display_name |-> "", email |-> "", account_id |-> ""]
NoUserResponse ==
  [user_id |-> NoRow, display_name |-> "", email |-> "", dropbox_account_id |-> "",
   dropbox_access_token |-> "", dropbox_refresh_token |-> "",
   dropbox_access_token_expiration |-> NoRow]

NoCallback ==
  [pc |-> "idle", served |-> 0, browser |-> "", oauth_result |-> NoOAuthResult,
   user_info |-> NoUserInfo, status |-> 0, response |-> NoUserResponse]

InitCallback ==
  /\ folders = {}
  /\ documents = {}
  /\ classifications = {}
  /\ users = {}
  /\ sessions = NoSessions
  /\ dbLock = 0
  /\ fsFiles = {}
  /\ fsDirs = {}
  /\ blobs = {}
  /\ req = [r \in ReqIds |-> NewReq]
  /\ interference = FALSE
  /\ result = NoCallback

\* a callback that leaves the session as it is
LeaveSession(S, browser, account_id) == S

\* line 87: request.session[DROPBOX_ACCOUNT_ID_SESSION_KEY] = account_id
StoreAccountId(S, browser, account_id) == [S EXCEPT ![browser] = account_id]

\* line 84: expires_at, None when the provider gave none
expires_at(oauth_result) ==
  IF oauth_result.expires_at # NoRow THEN oauth_result.expires_at ELSE NoRow

\* lines 90-100: the User row, with the id the table gives it
NewUser(U, oauth_result, user_info) ==
  [id |-> Max({u.id : u \in U}) + 1,
   display_name |-> user_info.display_name,
   email |-> user_info.email,
   dropbox_account_id |-> user_info.account_id,
   dropbox_access_token |-> oauth_result.access_token,
   dropbox_refresh_token |-> oauth_result.refresh_token,
   dropbox_access_token_expiration |-> expires_at(oauth_result)]

\* models.py, User.dropbox_account_id: unique
AccountIdTaken(U, user) == \E u \in U : u.dropbox_account_id = user.dropbox_account_id

\* lines 102-110: the response, built from the refreshed row's id and the locals
UserResponse(user, oauth_result, user_info) ==
  [user_id |-> user.id,
   display_name |-> user_info.display_name,
   email |-> user_info.email,
   dropbox_account_id |-> user_info.account_id,
   dropbox_access_token |-> oauth_result.access_token,
   dropbox_refresh_token |-> oauth_result.refresh_token,
   dropbox_access_token_expiration |-> expires_at(oauth_result)]

\* lines 112-113: except Exception: HTTPException(400)
CallbackRaised(c) == [c EXCEPT !.pc = "raised", !.status = 400]

\* lines 48-60: a browser comes back from the provider with code and state
dropbox_callback ==
  /\ result.pc \in {"idle", "returned", "raised"}
  /\ result.served < MaxCallbacks
  /\ \E b \in Browsers :
       result' = [NoCallback EXCEPT !.pc = "finish", !.served = result.served + 1,
                                    !.browser = b]
  /\ UNCHANGED <<login, folders, documents, classifications, dbLock, fsFiles, fsDirs,
                 blobs, req, interference>>

\* lines 66-73: auth_flow.finish answers with the tokens, or raises
auth_flow_finish ==
  /\ result.pc = "finish"
  /\ \/ result' = CallbackRaised(result)
     \/ \E at \in AccessTokens, rt \in RefreshTokens, exp \in Expirations :
          result' = [result EXCEPT
                       !.pc = "account",
                       !.oauth_result = [access_token |-> at, refresh_token |-> rt,
                                         expires_at |-> exp]]
  /\ UNCHANGED <<login, folders, documents, classifications, dbLock, fsFiles, fsDirs,
                 blobs, req, interference>>

\* lines 76-87: users_get_current_account answers with the account, or raises;
\* the account id is stored in the session
users_get_current_account ==
  /\ result.pc = "account"
  /\ \/ /\ result' = CallbackRaised(result)
        /\ UNCHANGED sessions
     \/ \E id \in Accounts, name \in DisplayNames, email \in Emails :
          /\ result' = [result EXCEPT
                          !.pc = "add_user",
                          !.user_info = [display_name |-> name, email |-> email,
                                         account_id |-> id]]
          /\ sessions' = StoreAccountId(sessions, result.browser, id)
  /\ UNCHANGED <<users, folders, documents, classifications, dbLock, fsFiles, fsDirs,
                 blobs, req, interference>>

\* lines 90-110: db.add(user), commit, refresh, respond
add_user ==
  /\ result.pc = "add_user"
  /\ LET user == NewUser(users, result.oauth_result, result.user_info)
     IN IF AccountIdTaken(users, user)
        THEN /\ result' = CallbackRaised(result)
             /\ UNCHANGED users
        ELSE /\ users' = users \cup {user}
             /\ result' = [result EXCEPT
                             !.pc = "returned", !.status = 200,
                             !.response = UserResponse(user, result.oauth_result,
                                                       result.user_info)]
  /\ UNCHANGED <<sessions, folders, documents, classifications, dbLock, fsFiles, fsDirs,
                 blobs, req, interference>>

NextCallback ==
  dropbox_callback \/ auth_flow_finish \/ users_get_current_account \/ add_user

SpecCallback == InitCallback /\ [][NextCallback]_vars

\* ------------------------------------------------------------ archive write
\* file_utils.write_zip_in_chunks alone, over the byte streams of an upload
MaxBytes == 5           \* bytes of the uploaded archive

Bytes == {0, 1}

InitWriteZip ==
  /\ folders = {}
  /\ documents = {}
  /\ classifications = {}
  /\ users = {}
  /\ sessions = NoSessions
  /\ dbLock = 0
  /\ fsFiles = {}
  /\ fsDirs = {}
  /\ blobs = {}
  /\ req = [r \in ReqIds |-> NewReq]
  /\ interference = FALSE
  /\ \E stream \in SeqsUpTo(Bytes, MaxBytes) :
       result = [pc |-> "open", stream |-> stream, offset |-> 0, chunk |-> <<>>,
                 reads |-> <<>>, file |-> <<>>]

\* a read that returns what is left of the stream
ReadRest(stream, offset, size) == {SubSeq(stream, offset + 1, Len(stream))}

\* line 151, upload_file.read(size): the bytes a read may return at the offset:
\* at most size of them, none only at the end of the stream
Read(stream, offset, size) ==
  IF offset = Len(stream) THEN {<<>>}
  ELSE {SubSeq(stream, offset + 1, offset + n) : n \in 1..Min(size, Len(stream) - offset)}

\* line 149: open(dest_path, "wb")
open_dest ==
  /\ result.pc = "open"
  /\ result' = [result EXCEPT !.pc = "read", !.file = <<>>]
  /\ UNCHANGED <<login, folders, documents, classifications, dbLock, fsFiles, fsDirs,
                 blobs, req, interference>>

\* line 151: chunk = await upload_file.read(settings.ZIP_FILE_READ_CHUNK_SIZE)
read_chunk ==
  /\ result.pc = "read"
  /\ \E chunk \in Read(result.stream, result.offset, ZIP_FILE_READ_CHUNK_SIZE) :
       result' = [result EXCEPT !.pc = "test", !.chunk = chunk,
                                !.offset = @ + Len(chunk),
                                !.reads = Append(@, chunk)]
  /\ UNCHANGED <<login, folders, documents, classifications, dbLock, fsFiles, fsDirs,
                 blobs, req, interference>>

\* lines 152-153: if not chunk: break; the file is closed
break_loop ==
  /\ result.pc = "test"
  /\ result.chunk = <<>>
  /\ result' = [result EXCEPT !.pc = "closed"]
  /\ UNCHANGED <<login, folders, documents, classifications, dbLock, fsFiles, fsDirs,
                 blobs, req, interference>>

\* line 154: f.write(chunk)
write_chunk ==
  /\ result.pc = "test"
  /\ result.chunk # <<>>
  /\ result' = [result EXCEPT !.pc = "read", !.file = @ \o result.chunk]
  /\ UNCHANGED <<login, folders, documents, classifications, dbLock, fsFiles, fsDirs,
                 blobs, req, interference>>

NextWriteZip == open_dest \/ read_chunk \/ break_loop \/ write_chunk

SpecWriteZip == InitWriteZip /\ [][NextWriteZip]_vars

\* ------------------------------------------------------------ properties
\* the text of the blob a document refers to, NoText when it refers to none
TextOf(d) ==
  IF d.dropbox_path # NoRow /\ HasBlob(blobs, d.user_id, d.dropbox_path)
  THEN BlobAt(blobs, d.user_id, d.dropbox_path).content
  ELSE NoText

Supported(a) == {k \in Range(a.files) : k.ext \in SupportedExts}

\* C2: a successful recursive ingest of an archive with N supported files in K
\* directories creates exactly N Documents and K Folders, the root Folder with
\* parent_id null and every other Folder below the Folder of its directory.
C2_OneRowPerFileAndDirectory ==
  \A r \in ReqIds :
    (req[r].pc = "respond" /\ req[r].drill) =>
      LET a == req[r].archive
          F == req[r].pendFolders
      IN /\ Cardinality(req[r].pendDocs) = Cardinality(Supported(a))
         /\ Cardinality(F) = Cardinality(a.dirs)
         /\ {f.path : f \in F} = a.dirs
         /\ \A f \in F :
              IF f.path = <<a.name>> THEN f.parent_id = NoRow
              ELSE \E g \in F : g.id = f.parent_id /\ g.path = Parent(f.path)

\* the files of a request's archive that normalisation excludes: no conversion
\* branch, or a conversion that raised
Excluded(r) ==
  {k \in Range(req[r].archive.files) : k.ext \notin SupportedExts \/ k \in req[r].bad}

\* an archive in which every converted file keeps a .txt path of its own
Separate(a) ==
  /\ \A k \in Range(a.files) : k.ext # "txt"
  /\ \A k, l \in Range(a.files) : WithSuffixTxt(k) = WithSuffixTxt(l) => k = l

\* C3: a file whose format is unsupported or whose conversion failed is left
\* out silently: tree building succeeds, no Document is created for that file
\* and one is created for every other supported file.
C3_ExcludedFileDoesNotFailIngest ==
  \A r \in ReqIds :
    (/\ req[r].kind = "ingest" /\ req[r].stage = "add_folder" /\ req[r].drill
     /\ Separate(req[r].archive) /\ Excluded(r) # {}) =>
      /\ req[r].pc = "upload"
      /\ {d.path : d \in req[r].pendDocs} = Supported(req[r].archive) \ Excluded(r)

\* no request has arrived since request r answered
Latest(r) == \A p \in ReqIds : r \notin req[p].after

\* C4: when an ingest fails after its staging directory was created, the
\* directory and everything in it, archive file and extracted files, are gone
\* by the time the error is answered.
C4_FailedIngestLeavesNoStaging ==
  \A r \in ReqIds :
    (req[r].kind = "ingest" /\ req[r].pc = "failed" /\ req[r].staged /\ Latest(r)) =>
      /\ ~IsDir(fsDirs, generate_tmp_dir(req[r].user), <<>>)
      /\ \A f \in fsFiles : f.tmp # generate_tmp_dir(req[r].user)

\* C5: no request writes, overwrites or deletes a file that another in-flight
\* request of the same owner has staged.
C5_StagedFilesArePrivate == ~interference

\* classify runs p then q of one folder: both answered 200, q arrived after p
\* had answered, neither overlapped another classify run, and no ingest arrived
\* in between
ClassifiedTwice(p, q) ==
  /\ req[p].kind = "classify" /\ req[q].kind = "classify"
  /\ req[p].pc = "done" /\ req[q].pc = "done"
  /\ req[p].user = req[q].user /\ req[p].folder_path = req[q].folder_path
  /\ p \in req[q].after
  /\ ~req[p].overlapped /\ ~req[q].overlapped
  /\ \A i \in ReqIds : req[i].kind = "ingest" => ~(p \in req[i].after /\ i \in req[q].after)

\* C6: the second of two classify runs of a folder in sequence finds no
\* unclassified document, creates no Classification and returns the
\* Classifications the first run returned.
C6_SecondClassifyCreatesNothing ==
  \A p, q \in ReqIds :
    ClassifiedTwice(p, q) =>
      /\ req[q].found = 0
      /\ req[q].created.classifications = 0
      /\ Range(req[q].response.classifications) = Range(req[p].response.classifications)

\* C6, reached: a folder was classified twice in sequence and the first run
\* created Classifications
C6_ClassifiedTwice ==
  \E p, q \in ReqIds :
    ClassifiedTwice(p, q) /\ req[p].created.classifications > 0

\* the folders below the folder at path, and the documents in them
TreeFolders(user, path) ==
  {f.id : f \in {g \in folders : g.user_id = user /\ IsPrefix(path, g.path)}}

TreeDocuments(user, path) ==
  {d.id : d \in {e \in documents : e.folder_id \in TreeFolders(user, path)}}

\* C7: an ingest whose top-level folder exists is answered from the database:
\* nothing is staged, no upload is started, no Folder and no Document is
\* created, and the answer is the tree of the existing folder.
C7_ReingestReturnsExistingTree ==
  \A r \in ReqIds :
    (req[r].kind = "ingest" /\ req[r].shortcut) =>
      /\ req[r].pc = "done"
      /\ ~req[r].staged /\ ~req[r].uploaded
      /\ req[r].created = NoCreated
      /\ req[r].response.folders = TreeFolders(req[r].user, req[r].folder_path)
      /\ req[r].response.documents = TreeDocuments(req[r].user, req[r].folder_path)

\* the documents a request's session holds and the committed ones
AllDocuments == documents \cup UNION {req[r].pendDocs : r \in ReqIds}

\* C8: a Document has a dropbox_path only if the batch-finish of the upload of
\* its file returned without a failed entry; when the upload fails, no Document
\* of that ingest has one.
C8_RefOnlyAfterCleanFinish ==
  /\ \A d \in AllDocuments :
       d.dropbox_path # NoRow =>
         \E b \in blobs : b.user = d.user_id /\ b.path = d.dropbox_path /\ b.clean
  /\ \A r \in ReqIds :
       req[r].upload.raised => \A d \in req[r].pendDocs : d.dropbox_path = NoRow

\* C8, reached: batch-finish marked an entry failed and committed another, and
\* the ingest holds Documents
C8_FailedEntry ==
  \E r \in ReqIds :
    /\ req[r].pc = "except" /\ req[r].stage = "upload"
    /\ req[r].env.failed # {} /\ req[r].upload.committed # {}
    /\ req[r].pendDocs # {}

\* the request has just run upload_files_to_dropbox over N files
Uploaded(r, N) ==
  /\ req[r].stage = "upload" /\ req[r].pc \in {"attach", "except"}
  /\ N = Len(req[r].file_map)

\* C9: upload_files_to_dropbox raises and returns no mapping when batch-start
\* returns a number of session ids other than N, having made no append, close
\* or batch-finish call, and when batch-finish marks an entry failed.
C9_UploadReportsFailure ==
  \A r \in ReqIds : \A N \in 0..MaxFiles :
    Uploaded(r, N) =>
      LET u == req[r].upload
          e == req[r].env
      IN /\ Len(e.session_ids) # N =>
              /\ u.raised /\ u.dropbox_paths = <<>>
              /\ Len(u.calls) = 1 /\ u.calls[1].op = "start_batch"
         /\ (Len(e.session_ids) = N /\ e.failed \cap (1..N) # {}) =>
              u.raised /\ u.dropbox_paths = <<>>

\* C9, reached: batch-start answered more session ids than there are files
C9_WrongSessionCount ==
  \E r \in ReqIds : \E N \in 1..MaxFiles :
    Uploaded(r, N) /\ Len(req[r].env.session_ids) > N /\ req[r].upload.raised

\* C10: an upload of N files that returns made one batch-start, then for each
\* file in order one append of the file's bytes to the file's own session and
\* one closing empty append at the offset of the file's length, then one
\* batch-finish whose N entries carry, in order, each file's session, offset
\* and a path of its own.
C10_UploadCallSequence ==
  \A r \in ReqIds : \A N \in 0..MaxFiles :
    (Uploaded(r, N) /\ req[r].pc = "attach") =>
      LET u == req[r].upload
          ids == req[r].env.session_ids
          file_paths == MapKeys(req[r].file_map)
          data == [i \in 1..N |->
                     FileAt(fsFiles, generate_tmp_dir(req[r].user), file_paths[i]).content]
      IN /\ Len(u.calls) = 2 * N + 2
         /\ u.calls[1].op = "start_batch" /\ u.calls[1].n = N
         /\ Injective(ids)
         /\ \A i \in 1..N :
              /\ u.calls[2 * i] =
                   Call("append", 0, ids[i], 0, data[i], FALSE, <<>>)
              /\ u.calls[2 * i + 1] =
                   Call("append", 0, ids[i], Size(data[i]), NoText, TRUE, <<>>)
         /\ u.calls[2 * N + 2].op = "finish_batch"
         /\ Len(u.calls[2 * N + 2].entries) = N
         /\ \A i \in 1..N :
              /\ u.calls[2 * N + 2].entries[i].session = ids[i]
              /\ u.calls[2 * N + 2].entries[i].offset = Size(data[i])
              /\ u.calls[2 * N + 2].entries[i].path = u.dropbox_paths[i].dropbox_path
              /\ u.dropbox_paths[i].txt = file_paths[i]
         /\ \A i, j \in 1..N :
              u.calls[2 * N + 2].entries[i].path = u.calls[2 * N + 2].entries[j].path
                => i = j

\* C10, reached: an upload of two files returned
C10_TwoFilesUploaded ==
  \E r \in ReqIds :
    Uploaded(r, 2) /\ req[r].pc = "attach" /\ Len(req[r].upload.calls) = 6

\* the labels classify_batch has returned, paired with the engine's raw labels
Returned ==
  IF result.pc = "returned"
  THEN {[raw |-> result.raw[j], label |-> result.labels[j]] : j \in DOMAIN result.raw}
  ELSE {}

\* C11: classify_batch returns Negative for the raw labels '1 star' and
\* '2 stars', Neutral for '3 stars' and Positive for '4 stars' and '5 stars'
C11_StarLabelsNormalized ==
  \A x \in Returned :
    /\ x.raw \in {"1 star", "2 stars"} => x.label = "Negative"
    /\ x.raw = "3 stars" => x.label = "Neutral"
    /\ x.raw \in {"4 stars", "5 stars"} => x.label = "Positive"

\* whether the string s holds the string part
Contains(s, part) ==
  \E i \in 1..(Len(s) - Len(part) + 1) : SubSeq(s, i, i + Len(part) - 1) = part

\* C12: classify_batch returns Negative for every raw label that holds
\* "negative" in any letter case, Neutral for "neutral" and Positive for
\* "positive"; "very negative" and "very positive" are among them
C12_WordLabelsNormalized ==
  \A x \in Returned :
    /\ Contains(lower(x.raw), "negative") => x.label = "Negative"
    /\ Contains(lower(x.raw), "neutral") => x.label = "Neutral"
    /\ Contains(lower(x.raw), "positive") => x.label = "Positive"

\* C13: every committed Classification row has a label among Positive,
\* Neutral and Negative
C13_PersistedLabelsCanonical ==
  \A c \in classifications : c.label \in {"Positive", "Neutral", "Negative"}

RECURSIVE Chain(_, _, _, _)
\* folder f of table F ends a chain of the user's folders named as the segments
Chain(F, user, segments, f) ==
  /\ segments # <<>>
  /\ f.user_id = user
  /\ f.name = segments[Len(segments)]
  /\ IF Len(segments) = 1 THEN f.parent_id = NoRow
     ELSE \E g \in F : /\ g.id = f.parent_id
                       /\ Chain(F, user, SubSeq(segments, 1, Len(segments) - 1), g)

\* C14: the lookup returns folder f exactly when f ends a chain of the
\* caller's folders whose names are the segments, the first one at the top
\* level; without such a chain it returns none
C14_LookupFollowsOwnChain ==
  result.pc = "returned" =>
    /\ \A f \in folders :
         result.folder = f.id <=> Chain(folders, result.user, result.segments, f)
    /\ result.folder = NoRow <=>
         ~\E f \in folders : Chain(folders, result.user, result.segments, f)

\* a lookup of two segments found nothing although another owner's folders
\* match the whole path
C14_OthersChainNotFound ==
  /\ result.pc = "returned"
  /\ result.folder = NoRow
  /\ Len(result.segments) = 2
  /\ \E f \in folders, u \in Owners :
       u # result.user /\ Chain(folders, u, result.segments, f)

\* the classify requests that were answered for a path that resolves to no
\* folder of the caller (folders are never removed or changed)
Unresolved ==
  {r \in ReqIds : /\ req[r].kind = "classify"
                  /\ req[r].pc \in {"done", "failed"}
                  /\ get_folder_by_path(req[r].folder_path, folders, req[r].user) = NoRow}

\* C15: a classify request for a path that resolves to no folder of the caller
\* is answered with status 404
C15_UnresolvedPathAnswers404 ==
  \A r \in Unresolved : req[r].status = 404

\* the documents in the folder at path and below it that have a
\* Classification in table C
ClassifiedIn(user, path, F, D, C) ==
  {d.id : d \in {e \in D : /\ \E f \in F : /\ f.id = e.folder_id
                                           /\ f.user_id = user
                                           /\ IsPrefix(path, f.path)
                           /\ \E c \in C : c.document_id = e.id}}

\* how many records of a response are about document d
Records(response, d) ==
  Cardinality({j \in DOMAIN response : response[j].document_id = d})

\* C16: when classify_folder answers 200, its response holds one record for
\* every document of the folder and its descendants that has a Classification
\* once the run has committed, and no other record
C16_ResponseCoversClassified ==
  [][\A r \in ReqIds :
       (req[r].pc = "c_commit" /\ req'[r].pc = "done") =>
         LET response == req'[r].response.classifications
             after == ClassifiedIn(req[r].user, req[r].folder_path,
                                   folders', documents', classifications')
         IN /\ \A d \in after : Records(response, d) = 1
            /\ \A j \in DOMAIN response : response[j].document_id \in after]_vars

\* another owner than the sender of request r has a folder at one of the
\* paths of r's archive
OthersHold(r) ==
  \E f \in folders : f.user_id # req[r].user /\ f.path \in req[r].archive.dirs

\* C17: no owner has two folders with the same path, and an ingest is not
\* failed by another owner's folder of the same name: tree building of an
\* archive of supported files in separate places succeeds and creates the
\* sender's own top-level folder
C17_PathUniquePerOwner ==
  /\ \A f, g \in folders :
       (f.user_id = g.user_id /\ f.path = g.path) => f.id = g.id
  /\ \A r \in ReqIds :
       (/\ req[r].kind = "ingest" /\ req[r].stage = "add_folder"
        /\ Separate(req[r].archive) /\ Excluded(r) = {}
        /\ OthersHold(r)) =>
         /\ req[r].pc = "upload"
         /\ \E g \in req[r].pendFolders :
              g.user_id = req[r].user /\ g.path = <<req[r].archive.name>>

\* the folders the session of request r sees
Visible(r) == folders \cup req[r].pendFolders

RECURSIVE Ancestors(_, _, _)
\* the ids on the parent chain of folder id in table F, n steps up
Ancestors(F, id, n) ==
  IF n = 0 \/ id = NoRow \/ ~\E f \in F : f.id = id THEN {}
  ELSE LET up == Row(F, id).parent_id
       IN (IF up = NoRow THEN {} ELSE {up}) \cup Ancestors(F, up, n - 1)

\* C18: every folder, committed or pending in a session, has no parent or a
\* parent that exists and was created before it (its id is smaller), no
\* folder is among its own ancestors, and every document is in an existing
\* folder
C18_ParentsExistAndAcyclic ==
  \A r \in ReqIds :
    LET F == Visible(r)
    IN /\ \A f \in F :
            /\ f.parent_id # NoRow =>
                 /\ \E g \in F : g.id = f.parent_id
                 /\ f.parent_id < f.id
            /\ f.id \notin Ancestors(F, f.id, Cardinality(F))
       /\ \A d \in documents \cup req[r].pendDocs : \E g \in F : g.id = d.folder_id

\* a committed folder below another folder holds a document
C18_NestedFolderCommitted ==
  \E f \in folders :
    /\ f.parent_id # NoRow
    /\ \E d \in documents : d.folder_id = f.id

\* the files of request r's archive whose conversion gave a text
Converted(r) ==
  {k \in Range(req[r].archive.files) : k.ext \in SupportedExts /\ k \notin req[r].bad}

\* C19: when the conversion of a file raised, normalisation has returned all
\* the same (tree building is next), and the map it returned has an entry at
\* the .txt path of every file whose conversion gave a text
C19_FailedConversionSkipsOneFile ==
  \A r \in ReqIds :
    (req[r].kind = "ingest" /\ req[r].stage = "convert" /\ req[r].bad # {}) =>
      /\ req[r].pc = "add_folder"
      /\ \A k \in Converted(r) : WithSuffixTxt(k) \in Range(MapKeys(req[r].file_map))

\* normalisation returned an entry for a file listed after one whose
\* conversion raised
C19_ConvertedAfterFailure ==
  \E r \in ReqIds :
    /\ req[r].kind = "ingest" /\ req[r].stage = "convert"
    /\ \E i, j \in DOMAIN req[r].archive.files :
         /\ i < j
         /\ req[r].archive.files[i] \in req[r].bad
         /\ req[r].archive.files[j] \in Converted(r)
         /\ WithSuffixTxt(req[r].archive.files[j]) \in Range(MapKeys(req[r].file_map))

\* the supported files directly inside the top-level directory of archive a
RootFiles(a) == {k \in Supported(a) : k.dir = <<a.name>>}

\* C20: a non-recursive ingest of an archive whose top-level directory has a
\* subdirectory gets through the attach stage when the environment fails no
\* step of it, with one Folder, the root, and one Document for every
\* supported file directly inside the root
C20_FlatIngestOfNestedArchive ==
  \A r \in ReqIds :
    (/\ req[r].kind = "ingest" /\ req[r].stage = "attach" /\ ~req[r].drill
     /\ \E d \in req[r].archive.dirs : Len(d) > 1
     /\ Separate(req[r].archive) /\ Excluded(r) = {} /\ ~req[r].fault) =>
      /\ req[r].pc = "rmtree"
      /\ {f.path : f \in req[r].pendFolders} = {<<req[r].archive.name>>}
      /\ {d.path : d \in req[r].pendDocs} = RootFiles(req[r].archive)

\* how many Classification rows document d has, committed or added by
\* request r
RowsOf(d, r) ==
  Cardinality({c \in classifications : c.document_id = d})
    + Cardinality({j \in DOMAIN req[r].newCls : req[r].newCls[j].document_id = d})

\* C21: with the requests served one after the other, no document has two
\* Classification rows, the rows one run adds are about different documents
\* that had none, and every record of a classify response is about a
\* document of the folder classified
C21_OneClassificationPerDocument ==
  /\ \A d \in documents : Cardinality({c \in classifications : c.document_id = d.id}) <= 1
  /\ \A c \in classifications : \E d \in documents : d.id = c.document_id
  /\ \A r \in ReqIds :
       /\ \A d \in documents : RowsOf(d.id, r) <= 1
       /\ \A j \in DOMAIN req[r].response.classifications :
            req[r].response.classifications[j].document_id
              \in TreeDocuments(req[r].user, req[r].folder_path)

\* a run that committed two Classification rows was followed by another
\* classify request that was answered 200
C21_TwoRowsThenClassifiedAgain ==
  \E p, q \in ReqIds :
    /\ p # q
    /\ req[p].kind = "classify" /\ req[p].created.classifications = 2
    /\ req[q].kind = "classify" /\ req[q].pc = "done" /\ p \in req[q].after

\* how many committed Classification rows of table C are about document d
Count(C, d) == Cardinality({c \in C : c.document_id = d})

\* C22: nothing rejects the rows of a classify run: its commit adds one row
\* for every result it holds, also for a document that has got a row since the
\* run selected it
C22_CommitAddsEveryRow ==
  [][\A r \in ReqIds :
       (req[r].pc = "c_commit" /\ req'[r].pc # "c_commit") =>
         /\ req'[r].pc = "done"
         /\ \A d \in documents :
              Count(classifications', d.id)
                = Count(classifications, d.id)
                    + Cardinality({j \in DOMAIN req[r].newCls :
                                     req[r].newCls[j].document_id = d.id})]_vars

\* two classify runs that overlapped have both committed, and a document has
\* two Classification rows
C22_TwoRowsForOneDocument ==
  /\ \E d \in documents : Count(classifications, d.id) = 2
  /\ \E p, q \in ReqIds :
       /\ p # q
       /\ req[p].kind = "classify" /\ req[p].pc = "done" /\ req[p].overlapped
       /\ req[q].kind = "classify" /\ req[q].pc = "done" /\ req[q].overlapped

\* the blobs of request r's list that are in its download directory
Fetched(r) ==
  LET paths == DropboxPaths(req[r].unclassified, documents)
  IN {i \in DOMAIN paths :
        Exists(fsFiles, generate_tmp_dir(req[r].user), DownloadKey(paths[i]))}

\* a fetch of request r's download has just failed
FetchFailed(r) ==
  req[r].kind = "classify" /\ req[r].stage = "download" /\ req[r].fault

\* the blobs fetched before the failure are the first ones of the list, the
\* download returned no path and the handler's except branch is next
StoppedAtFailure ==
  \A r \in ReqIds :
    FetchFailed(r) =>
      /\ req[r].pc = "c_except"
      /\ req[r].local_paths = <<>>
      /\ \E k \in DOMAIN DropboxPaths(req[r].unclassified, documents) :
           Fetched(r) = 1..(k - 1)

\* C23: when the fetch of blob k fails, the blobs before k have been fetched
\* and none after it, the error leaves the download, and the run ends
\* without a Classification row
C23_FailedFetchAbortsDownload ==
  [][/\ StoppedAtFailure'
     /\ \A r \in ReqIds :
          FetchFailed(r) =>
            /\ classifications' = classifications
            /\ req'[r].pc = "failed"
            /\ req'[r].created.classifications = 0]_vars

\* the second fetch of a download of two blobs failed after the first blob
\* was fetched
C23_SecondFetchFailed ==
  \E r \in ReqIds :
    /\ FetchFailed(r)
    /\ Len(DropboxPaths(req[r].unclassified, documents)) = 2
    /\ Fetched(r) = {1}

\* the messages a failure is answered with, whatever failed
FixedMessages ==
  {"Failed to process and add zipped folder", "Sentiment classification failed",
   InternalServerError}

CreatedBy(r) == {d \in req[r].pendDocs : \A e \in documents : e.id # d.id}

\* no earlier ingest failed after it had uploaded
NoAbandonedUpload == \A p \in ReqIds : req[p].pc = "failed" => ~req[p].uploaded

Appends(r) ==
  {c \in Range(req[r].upload.calls) : c.op = "append" /\ ~c.close}

\* C26: no append call of an upload carries more bytes than one chunk holds,
\* whatever the size of the file
C26_AppendsAreBounded ==
  \A r \in ReqIds : \A c \in Appends(r) : Size(c.data) <= ZIP_FILE_READ_CHUNK_SIZE

\* the Documents request r's session sees
ViewDocs(r) == Merge(documents, req[r].pendDocs)

\* row e is row d, but for its dropbox_path
SameButBlobRef(d, e) == [e EXCEPT !.dropbox_path = d.dropbox_path] = d

\* C27: a step of a classify run leaves the Folder and Document rows as they
\* are, in the tables and in its session, and keeps every Classification row
\* of the table; a step of an ingest changes a Document that exists, in the
\* table or in its session, in its dropbox_path only
C27_RunsChangeOnlyTheirRows ==
  [][\A r \in ReqIds : req'[r] # req[r] =>
       /\ req'[r].kind = "classify" =>
            /\ folders' = folders /\ documents' = documents
            /\ req'[r].pendFolders = {} /\ req'[r].pendDocs = {}
            /\ classifications \subseteq classifications'
       /\ req'[r].kind = "ingest" =>
            /\ \A d \in ViewDocs(r) : \A e \in ViewDocs(r)' :
                 e.id = d.id => SameButBlobRef(d, e)
            /\ \A d \in documents : \E e \in documents' : e.id = d.id]_vars

\* a classify run committed rows to a table that held some, and an ingest
\* committed Documents whose dropbox_path it had set
C27_BothRan ==
  /\ \E r \in ReqIds : /\ req[r].kind = "classify" /\ req[r].pc = "done"
                       /\ req[r].created.classifications > 0
                       /\ Cardinality(classifications) > req[r].created.classifications
  /\ \E d \in documents : d.dropbox_path # NoRow

\* C28: when the callback has answered 200, a User row with the account id the
\* provider returned is in the table, the browser's session holds that account
\* id, and the response carries that row's id and the display name, email,
\* account id and tokens the provider returned
C28_CallbackStoresUser ==
  result.pc = "returned" =>
    /\ result.status = 200
    /\ sessions[result.browser] = result.user_info.account_id
    /\ \E u \in users :
         /\ u.dropbox_account_id = result.user_info.account_id
         /\ result.response.user_id = u.id
         /\ result.response.dropbox_account_id = u.dropbox_account_id
         /\ result.response.display_name = result.user_info.display_name
         /\ result.response.email = result.user_info.email
         /\ result.response.dropbox_access_token = result.oauth_result.access_token
         /\ result.response.dropbox_refresh_token = result.oauth_result.refresh_token

\* a second account has signed in: the table holds two User rows
C28_SecondAccountSignedIn ==
  /\ result.pc = "returned"
  /\ Cardinality(users) = 2

\* the text recorded under map entry e lies in staging at the entry's path
Staged(r, e) ==
  LET tmp == generate_tmp_dir(req[r].user)
  IN /\ Exists(fsFiles, tmp, e.txt)
     /\ FileAt(fsFiles, tmp, e.txt).content = [src |-> e.meta, form |-> "text"]

\* C29: after normalization, every entry of the map names a path in staging
\* where a file with the text converted from the entry's original lies
C29_NormalizedTextIsStaged ==
  \A r \in ReqIds : req[r].pc = "add_folder" =>
    \A e \in Range(req[r].file_map) : Staged(r, e)

\* ingest r has answered with a folder tree
AnsweredTree(r) == req[r].kind = "ingest" /\ req[r].pc = "done" /\ req[r].status = 200

\* C30: the tree an ingest answers with, fresh or short-circuited, lists every
\* Document of each of its folders, classified or not; two ingests of the same
\* archive by the same owner answer with the same documents
C30_TreeListsEveryDocument ==
  /\ \A r \in ReqIds : AnsweredTree(r) =>
       req[r].response.documents
         = {d.id : d \in {e \in documents : e.folder_id \in req[r].response.folders}}
  /\ \A r, p \in ReqIds :
       (/\ AnsweredTree(r) /\ AnsweredTree(p)
        /\ req[r].user = req[p].user /\ req[r].folder_path = req[p].folder_path) =>
         req[r].response.documents = req[p].response.documents

\* two different files of request r's archive whose conversion gave a text
ConvertedPairs(r) == {p \in Converted(r) \X Converted(r) : p[1] # p[2]}

\* C31: after normalization, two different converted files of one archive have
\* map entries of their own under different .txt paths; once the tree is
\* built, each has a Document of its own
C31_NormalizedPathsAreDistinct ==
  \A r \in ReqIds : \A p \in ConvertedPairs(r) :
    /\ req[r].pc = "add_folder" =>
         \E e, f \in Range(req[r].file_map) :
           e.meta = p[1] /\ f.meta = p[2] /\ e.txt # f.txt
    /\ (req[r].pc = "upload" /\ req[r].drill) =>
         \E d, e \in req[r].pendDocs : d.path = p[1] /\ e.path = p[2] /\ d.id # e.id

\* the documents of d that have no committed Classification
Unclassified(d, C) == {x \in Range(d) : \A c \in C : c.document_id # x}

\* C32: a classify run changes the table of classifications in its commit
\* only; a run that failed ends without a row of its own, and the documents
\* it found unclassified are still found unclassified by the next lookup
C32_FailedRunCommitsNothing ==
  [][\A r \in ReqIds :
       /\ (req[r].kind = "classify" /\ req'[r] # req[r] /\ req[r].pc # "c_commit") =>
            classifications' = classifications
       /\ (req[r].pc = "c_except" /\ req'[r].pc # "c_except") =>
            /\ req'[r].pc = "failed"
            /\ req'[r].created.classifications = 0
            /\ Unclassified(req[r].unclassified, classifications)
                 \subseteq Range(get_documents_in_folder(
                                   req[r].root, folders', documents', classifications',
                                   TRUE, FALSE))]_vars

\* the engine failed on a later batch after an earlier batch had been scored
C32_FailedAfterScoredBatch ==
  \E r \in ReqIds :
    /\ req[r].kind = "classify" /\ req[r].pc = "c_except" /\ req[r].stage = "classify"
    /\ req[r].fault
    /\ Len(req[r].newCls) = CLASSIFICATION_BATCH_SIZE
    /\ Len(req[r].local_paths) > CLASSIFICATION_BATCH_SIZE

\* the ingests answered 200 before request p arrived, for p's archive
IngestedBefore(p) ==
  {q \in req[p].after : /\ req[q].kind = "ingest" /\ req[q].pc = "done"
                        /\ req[q].folder_path = req[p].folder_path}

OwnerOf(T, id) == Row(T, id).user_id

\* the rows request r has read, holds in its session or has answered with all
\* belong to its sender
OwnRowsOnly(r) ==
  LET u == req[r].user
      F == ViewFolders(r)
      D == ViewDocs(r)
  IN /\ \A f \in req[r].pendFolders : f.user_id = u
     /\ \A d \in req[r].pendDocs : d.user_id = u
     /\ \A j \in DOMAIN req[r].unclassified : OwnerOf(D, req[r].unclassified[j]) = u
     /\ \A j \in DOMAIN req[r].classified : OwnerOf(D, req[r].classified[j]) = u
     /\ \A j \in DOMAIN req[r].newCls :
          req[r].newCls[j].user_id = u /\ OwnerOf(D, req[r].newCls[j].document_id) = u
     /\ \A id \in req[r].response.folders : OwnerOf(F, id) = u
     /\ \A id \in req[r].response.documents : OwnerOf(D, id) = u
     /\ \A j \in DOMAIN req[r].response.classifications :
          OwnerOf(D, req[r].response.classifications[j].document_id) = u

\* C34: a Document has the owner of its Folder, a sub-Folder the owner of its
\* parent, a Classification the owner of its Document; and a request reads,
\* writes and answers with rows of its sender only
C34_OwnersAreConsistent ==
  /\ \A d \in documents : OwnerOf(folders, d.folder_id) = d.user_id
  /\ \A f \in folders : f.parent_id # NoRow => OwnerOf(folders, f.parent_id) = f.user_id
  /\ \A c \in classifications : OwnerOf(documents, c.document_id) = c.user_id
  /\ \A r \in ReqIds : req[r].kind # "none" => OwnRowsOnly(r)

\* an owner asked for the classification of a folder that another owner holds
\* at that path, and found no folder
C34_OthersFolderNotFound ==
  \E r \in ReqIds :
    /\ req[r].kind = "classify" /\ req[r].pc = "c_except" /\ req[r].status = 404
    /\ \E f \in folders : f.path = req[r].folder_path /\ f.user_id # req[r].user
    /\ \E d \in documents : d.user_id # req[r].user

\* the texts of the blobs request r downloaded, in the order of its documents
DownloadedTexts(r) ==
  LET paths == DropboxPaths(req[r].unclassified, documents)
  IN [j \in DOMAIN paths |-> BlobAt(blobs, req[r].user, paths[j]).content]

\* C35: when the loop over the batches has ended, no engine call was empty or
\* larger than CLASSIFICATION_BATCH_SIZE, every call but the last was full, and
\* the calls one after the other are the downloaded texts in document order,
\* all of them when no call failed
C35_EngineCalledPerSlice ==
  \A r \in ReqIds :
    (req[r].kind = "classify" /\ req[r].stage = "classify") =>
      LET calls == req[r].calls
          passed == Concat(calls)
      IN /\ \A k \in DOMAIN calls :
              /\ Len(calls[k]) \in 1..CLASSIFICATION_BATCH_SIZE
              /\ k < Len(calls) => Len(calls[k]) = CLASSIFICATION_BATCH_SIZE
         /\ IsPrefix(passed, DownloadedTexts(r))
         /\ req[r].pc = "c_rmtree" => passed = DownloadedTexts(r)

\* three texts were passed to the engine in two calls
C35_TwoCallsForThreeTexts ==
  \E r \in ReqIds :
    /\ req[r].kind = "classify" /\ req[r].pc = "c_rmtree"
    /\ Len(req[r].calls) = 2
    /\ Len(DownloadedTexts(r)) = 3

\* the positions of an ingest, in the order of the handler
IngestOrder ==
  <<"write_zip", "extract", "delete_zip", "convert", "add_folder", "upload", "attach",
    "rmtree", "respond", "done">>

PositionOf(pc) == CHOOSE k \in DOMAIN IngestOrder : IngestOrder[k] = pc

\* the ids of the Folder and of the Document rows in request r's session
FolderIds(r) == {f.id : f \in req[r].pendFolders}
DocumentIds(r) == {d.id : d \in req[r].pendDocs}

\* C36: a step of an ingest takes it to the next stage of the order or to its
\* exception handler; the zip file is gone when the normalisation starts; and
\* the rows of the session are there when the upload starts, with no blob
\* uploaded yet, and no row is created after that
C36_StagesRunInOrder ==
  [][\A r \in ReqIds :
       (req[r].kind = "ingest" /\ req'[r].pc # req[r].pc) =>
         /\ req[r].pc = "except" => req'[r].pc = "failed"
         /\ req[r].pc # "except" =>
              \/ req'[r].pc = "except"
              \/ PositionOf(req'[r].pc) = PositionOf(req[r].pc) + 1
         /\ req'[r].pc = "convert" =>
              ~Exists(fsFiles', generate_tmp_dir(req[r].user), ZipKey(req[r].archive))
         /\ req'[r].pc = "upload" =>
              /\ req'[r].pendFolders # {}
              /\ req'[r].upload = NoUpload /\ ~req'[r].uploaded
         /\ req[r].pc \in {"upload", "attach", "rmtree"} => FolderIds(r)' = FolderIds(r) /\ DocumentIds(r)' = DocumentIds(r)]_vars

\* an ingest has gone through every stage and answered
C36_WentThroughAllStages ==
  \E r \in ReqIds :
    /\ req[r].kind = "ingest" /\ req[r].pc = "done" /\ ~req[r].shortcut
    /\ req[r].created.documents > 0

\* C37: no read of write_zip_in_chunks returns more than
\* ZIP_FILE_READ_CHUNK_SIZE bytes; the file holds the chunks read before the
\* current one, in the order read; the loop ends at the first empty read, and
\* then the file is the whole stream
C37_ArchiveWrittenInChunks ==
  LET reads == result.reads
      written == IF result.pc = "test" THEN Len(reads) - 1 ELSE Len(reads)
  IN /\ \A k \in DOMAIN reads : Len(reads[k]) <= ZIP_FILE_READ_CHUNK_SIZE
     /\ result.file = Concat(SubSeq(reads, 1, written))
     /\ IsPrefix(result.file, result.stream)
     /\ \A k \in DOMAIN reads : reads[k] = <<>> => k = Len(reads)
     /\ result.pc = "closed" =>
          /\ reads # <<>> /\ reads[Len(reads)] = <<>>
          /\ result.file = result.stream

\* a stream longer than two chunks has been written and the file is closed
C37_LongStreamWritten ==
  /\ result.pc = "closed"
  /\ Len(result.stream) > 2 * ZIP_FILE_READ_CHUNK_SIZE

====
